---- MODULE Spec2Model ----
(***************************************************************************)
(* State-machine model of the on-chain interaction layer of                *)
(* erc20_payment_lib (crates/erc20_payment_lib/src/eth.rs and              *)
(* contracts.rs): the balance resolution strategy (get_balance) and the    *)
(* dynamic deposit validator (validate_deposit_eth).                       *)
(*                                                                         *)
(* One invocation of one operation is modelled per behaviour.  Init draws  *)
(* the operation and its arguments; every action is the code that runs     *)
(* between two suspension points (.await) of the invocation, and draws the *)
(* answer of the RPC collaborator from a bounded set.  `calls` and `resps` *)
(* record the RPC calls issued and the answers received, in order.         *)
(***************************************************************************)
EXTENDS Integers, Sequences, FiniteSets, TLC

VARIABLES
    op,          \* the operation invoked
    pc,          \* position of the invocation: the .await it is suspended at
    args,        \* the arguments of the invocation
    calls,       \* RPC calls issued so far by the invocation, in order
    resps,       \* answers received so far, resps[i] answers calls[i]
    locals,      \* local variables live across the suspension point
    simple_ret,  \* Option: what get_balance_simple returned, when it ran
    result       \* Option: what the invocation returned (Ok / Err) or a panic

vars == <<op, pc, args, calls, resps, locals, simple_ret, result>>

----------------------------------------------------------------------------
(* Bounds of the model *)

\* block numbers 1..MaxBlock
MaxBlock == 2
\* chain ids 1..MaxChainId
MaxChainId == 2
\* u64 values are 0..U64Limit-1 (the model's 2^64); U256 values reach U64Limit
U64Limit == 4
\* timestamps 0..MaxTimestamp convert to a calendar instant
MaxTimestamp == 1
\* wei / token amounts 0..MaxAmount
MaxAmount == 1
\* schema length 0..MaxSchemaLen
MaxSchemaLen == 2

----------------------------------------------------------------------------
(* Rust Option and Result *)

None == <<>>
Some(v) == <<v>>
IsSome(o) == o /= <<>>
Unwrap(o) == o[1]

Ok(v) == [kind |-> "Ok", value |-> v]
Err(m) == [kind |-> "Err", msg |-> m]
Panic(m) == [kind |-> "Panic", msg |-> m]

----------------------------------------------------------------------------
(* Text: a string is the sequence of its characters *)

Upper == <<"A","B","C","D","E","F","G","H","I","J","K","L","M","N","O","P","Q","R","S","T","U","V","W","X","Y","Z">>
Lower == <<"a","b","c","d","e","f","g","h","i","j","k","l","m","n","o","p","q","r","s","t","u","v","w","x","y","z">>

\* str::to_lowercase, on the characters the model uses
to_lowercase(s) ==
    [i \in 1..Len(s) |->
        IF \E k \in 1..Len(Upper) : Upper[k] = s[i]
        THEN Lower[CHOOSE k \in 1..Len(Upper) : Upper[k] = s[i]]
        ELSE s[i]]

\* str::contains
contains(hay, needle) ==
    \E i \in 1..(Len(hay) - Len(needle) + 1) :
        SubSeq(hay, i, i + Len(needle) - 1) = needle

\* the literal "insufficient funds" of eth.rs:536
InsufficientFunds == <<"i","n","s","u","f","f","i","c","i","e","n","t"," ","f","u","n","d","s">>

\* the error classification of get_balance_using_contract_wrapper:
\* e.to_string().to_lowercase().contains("insufficient funds")
is_case_sensitive_insufficient_funds(e) == contains(e, InsufficientFunds)
is_insufficient_funds(e) == contains(to_lowercase(e), InsufficientFunds)

----------------------------------------------------------------------------
(* Inputs: what the RPC collaborator may answer *)

ErrTexts == {
    <<"i","n","s","u","f","f","i","c","i","e","n","t"," ","f","u","n","d","s"," ","f","o","r"," ","g","a","s">>,
    <<"g","a","s",":"," ","I","n","s","u","f","f","i","c","i","e","n","t"," ","F","U","N","D","S">>,
    <<"i","n","s","u","f","f","i","c","i","e","n","t"," ","f","u","n","d">>,
    <<"e","x","e","c","u","t","i","o","n"," ","r","e","v","e","r","t","e","d">> }

RpcErr(e) == [ok |-> FALSE, err |-> e]
RpcOk(v) == [ok |-> TRUE, value |-> v]
RpcErrors == { RpcErr(e) : e \in ErrTexts }

Blocks == 1..MaxBlock
ChainIds == 1..MaxChainId
Amounts == 0..MaxAmount

\* a byte string of length n whose last byte is v and whose other bytes are 0
BytesOf(n, v) == [i \in 1..n |-> IF i = n THEN v ELSE 0]

RawReturns == { BytesOf(n, 7) : n \in {0, 1, 31, 32, 33, 64} }

\* ABI-encoded answers of the wrapper contract's callWithDetails: a well-formed
\* 5-tuple (uint256, uint256, uint256, uint256, bytes), or bytes that are no
\* such tuple
Malformed == [abi |-> "malformed"]
WrapperReturns ==
    { Malformed } \cup
    [abi : {"tuple5"}, chain_id : ChainIds \cup {U64Limit}, number : Blocks \cup {U64Limit},
     timestamp : 0..(MaxTimestamp + 1), balance : Amounts, call_result : RawReturns]

\* web3 Block: number is an Option, timestamp a U256
BlockInfos == [number : {None} \cup { Some(n) : n \in Blocks }, timestamp : 0..(MaxTimestamp + 1)]

----------------------------------------------------------------------------
(* Conversions *)

\* U256::as_u64: panics when the value does not fit in 64 bits
as_u64(x) == IF x >= U64Limit THEN Panic("Integer overflow when casting to u64") ELSE Ok(x)

\* erc20_payment_lib_common::utils::datetime_from_u256_timestamp: None when
\* the timestamp is zero or no calendar instant
datetime_from_u256_timestamp(ts) == IF ts >= 1 /\ ts <= MaxTimestamp THEN Some(ts) ELSE None

RECURSIVE BigEndian(_)
BigEndian(bytes) ==
    IF bytes = <<>> THEN 0
    ELSE 256 * BigEndian(SubSeq(bytes, 1, Len(bytes) - 1)) + bytes[Len(bytes)]

\* U256::from_big_endian: asserts that the slice holds at most 32 bytes
U256_from_big_endian(bytes) ==
    IF Len(bytes) > 32 THEN Panic("assertion failed: 4 * 8 >= slice.len()")
    ELSE Ok(BigEndian(bytes))

decode_with_default_datetime(bytes) ==
    IF bytes.abi /= "tuple5"
    THEN Err(<<"Failed to decode call with details">>)
    ELSE IF as_u64(bytes.chain_id).kind = "Panic" THEN as_u64(bytes.chain_id)
    ELSE IF as_u64(bytes.number).kind = "Panic" THEN as_u64(bytes.number)
    ELSE Ok([block_info |->
                [chain_id |-> bytes.chain_id,
                 eth_balance |-> bytes.balance,
                 block_number |-> bytes.number,
                 block_datetime |->
                    IF datetime_from_u256_timestamp(bytes.timestamp) = None
                    THEN 0
                    ELSE Unwrap(datetime_from_u256_timestamp(bytes.timestamp))],
             call_result |-> bytes.call_result])

\* contracts.rs decode_call_with_details
decode_call_with_details(bytes) ==
    IF bytes.abi /= "tuple5"
    THEN Err(<<"Failed to decode call with details">>)
    ELSE IF as_u64(bytes.chain_id).kind = "Panic" THEN as_u64(bytes.chain_id)
    ELSE IF as_u64(bytes.number).kind = "Panic" THEN as_u64(bytes.number)
    ELSE IF datetime_from_u256_timestamp(bytes.timestamp) = None
    THEN Err(<<"Failed to convert timestamp to datetime">>)
    ELSE Ok([block_info |->
                [chain_id |-> bytes.chain_id,
                 eth_balance |-> bytes.balance,
                 block_number |-> bytes.number,
                 block_datetime |-> Unwrap(datetime_from_u256_timestamp(bytes.timestamp))],
             call_result |-> bytes.call_result])

----------------------------------------------------------------------------
(* RPC calls, as recorded in `calls` *)

\* contracts.rs contract_encode: the call data is the function called, the
\* kinds of its parameters and the tokens passed
CallData(name, inputs, tokens) == [name |-> name, inputs |-> inputs, tokens |-> tokens]

\* contracts.rs encode_erc20_balance_of / encode_call_with_details
encode_erc20_balance_of(address) == CallData("balanceOf", <<"address">>, <<address>>)
encode_call_with_details(target, data) ==
    CallData("callWithDetails", <<"address", "bytes">>, <<target, data>>)

\* web3 BlockId / BlockNumber
Latest == <<"Latest">>
Number(n) == <<"Number", n>>

EthCall(from, to, data, block) ==
    [method |-> "eth_call", from |-> from, to |-> to, data |-> data, block |-> block]
EthBlock(block_id) == [method |-> "eth_block", block |-> block_id]
EthBalance(address, block) == [method |-> "eth_balance", address |-> address, block |-> block]
EthBlockNumber == [method |-> "eth_block_number"]

\* the call get_balance_using_contract_wrapper issues (eth.rs:480-506)
wrapper_call(a, token_address, call_with_details) ==
    EthCall(Some(a.address), call_with_details,
            encode_call_with_details(token_address, encode_erc20_balance_of(a.address)),
            IF IsSome(a.block_number) THEN Some(Number(Unwrap(a.block_number))) ELSE None)

\* the first call of get_balance_simple (eth.rs:561-571)
simple_block_call(a) ==
    EthBlock(IF IsSome(a.block_number) THEN Number(Unwrap(a.block_number)) ELSE Latest)

----------------------------------------------------------------------------
(* get_balance (eth.rs:474-667) *)

GetBalanceArgs ==
    [address : {"addr"},
     token_address : {None, Some("token")},
     call_with_details : {None, Some("wrapper")},
     block_number : {None} \cup { Some(n) : n \in Blocks },
     chain_id : {None} \cup { Some(c) : c \in ChainIds }]

\* Address::default()
ZeroAddress == "0x0"

\* the if-let of get_balance (eth.rs:648-650): Some(<<token_address,
\* call_with_details>>) when the pattern matches
wrapper_needs_token_only(a) ==
    IF IsSome(a.token_address)
    THEN Some(<<Unwrap(a.token_address),
                IF IsSome(a.call_with_details) THEN Unwrap(a.call_with_details) ELSE ZeroAddress>>)
    ELSE None
wrapper_target(a) ==
    IF IsSome(a.token_address) /\ IsSome(a.call_with_details)
    THEN Some(<<Unwrap(a.token_address), Unwrap(a.call_with_details)>>)
    ELSE None

\* the chain id verification of eth.rs:511-519
chain_id_unchecked(expected, got) == FALSE
chain_id_mismatch(expected, got) == IsSome(expected) /\ got /= Unwrap(expected)

\* get_balance_using_contract_wrapper from the answer of its eth_call on
\* (eth.rs:507-554): a Result<Option<GetBalanceResult>>
get_balance_using_contract_wrapper(a, resp) ==
    IF resp.ok
    THEN LET d == decode_call_with_details(resp.value) IN
         IF d.kind /= "Ok" THEN d
         ELSE IF chain_id_mismatch(a.chain_id, d.value.block_info.chain_id)
         THEN Err(<<"Invalid chain id in response", d.value.block_info.chain_id, Unwrap(a.chain_id)>>)
         ELSE LET token_balance == U256_from_big_endian(d.value.call_result) IN
              IF token_balance.kind /= "Ok" THEN token_balance
              ELSE Ok(Some([gas_balance |-> Some(d.value.block_info.eth_balance),
                            token_balance |-> Some(token_balance.value),
                            block_number |-> d.value.block_info.block_number,
                            block_datetime |-> d.value.block_info.block_datetime]))
    ELSE IF is_insufficient_funds(resp.err)
         THEN Ok(None)
         ELSE Err(<<"Error getting balance for account", a.address, resp.err>>)

\* get_balance after the wrapper path returned r (eth.rs:657-666): `?` passes
\* an error on, Some(balance) is returned, None runs get_balance_simple
falls_back_on_any_failure(r) == r.kind /= "Ok" \/ r.value = None
runs_simple(r) == r.kind = "Ok" /\ r.value = None
wrapper_return(r) == IF r.kind = "Ok" THEN Ok(Unwrap(r.value)) ELSE r

\* get_balance_simple returns ret, and get_balance returns the same (eth.rs:665)
simple_returns(ret) ==
    /\ simple_ret' = Some(ret)
    /\ result' = Some(ret)
    /\ pc' = "done"
    /\ UNCHANGED <<calls, locals>>

\* entry of get_balance up to its first .await (eth.rs:638-656, 480-506, 561-571)
get_balance ==
    /\ op = "get_balance"
    /\ pc = "start"
    /\ IF IsSome(wrapper_target(args))
       THEN /\ calls' = Append(calls, wrapper_call(args, Unwrap(wrapper_target(args))[1],
                                                  Unwrap(wrapper_target(args))[2]))
            /\ pc' = "wrapper_eth_call"
       ELSE /\ calls' = Append(calls, simple_block_call(args))
            /\ pc' = "simple_eth_block"
    /\ UNCHANGED <<op, args, resps, locals, simple_ret, result>>

\* the wrapper eth_call returns (eth.rs:507-554, 657-666, 561-571)
wrapper_eth_call_returns ==
    /\ pc = "wrapper_eth_call"
    /\ \E resp \in RpcErrors \cup { RpcOk(b) : b \in WrapperReturns } :
        LET r == get_balance_using_contract_wrapper(args, resp) IN
        /\ resps' = Append(resps, resp)
        /\ IF runs_simple(r)
           THEN /\ calls' = Append(calls, simple_block_call(args))
                /\ pc' = "simple_eth_block"
                /\ UNCHANGED result
           ELSE /\ result' = Some(wrapper_return(r))
                /\ pc' = "done"
                /\ UNCHANGED calls
    /\ UNCHANGED <<op, args, locals, simple_ret>>

\* eth_block returns in get_balance_simple (eth.rs:568-586)
simple_eth_block_returns ==
    /\ pc = "simple_eth_block"
    /\ \E resp \in RpcErrors \cup { RpcOk(None) } \cup { RpcOk(Some(b)) : b \in BlockInfos } :
        /\ resps' = Append(resps, resp)
        /\ IF ~resp.ok
           THEN simple_returns(Err(<<"rpc", resp.err>>))
           ELSE IF resp.value = None
           THEN simple_returns(Err(<<"Cannot found block_info">>))
           ELSE IF Unwrap(resp.value).number = None
           THEN simple_returns(Err(<<"Failed to found block number in block info">>))
           ELSE /\ locals' = [block_info |-> Unwrap(resp.value),
                              block_number |-> Unwrap(Unwrap(resp.value).number)]
                /\ calls' = Append(calls,
                       EthBalance(args.address, Some(Number(Unwrap(Unwrap(resp.value).number)))))
                /\ pc' = "simple_eth_balance"
                /\ UNCHANGED <<simple_ret, result>>
    /\ UNCHANGED <<op, args>>

\* the balanceOf call of get_balance_simple, when a token address was
\* supplied (eth.rs:599-617)
token_call_to_any_address(a, block_number) ==
    Some(EthCall(None, IF IsSome(a.token_address) THEN Unwrap(a.token_address) ELSE ZeroAddress,
                 encode_erc20_balance_of(a.address), Some(Number(block_number))))
simple_token_call_at_latest(a, block_number) ==
    IF IsSome(a.token_address)
    THEN Some(EthCall(None, Unwrap(a.token_address), encode_erc20_balance_of(a.address), None))
    ELSE None
simple_token_call(a, block_number) ==
    IF IsSome(a.token_address)
    THEN Some(EthCall(None, Unwrap(a.token_address), encode_erc20_balance_of(a.address),
                      Some(Number(block_number))))
    ELSE None

\* eth_balance returns in get_balance_simple (eth.rs:581-636)
simple_eth_balance_returns ==
    /\ pc = "simple_eth_balance"
    /\ \E resp \in RpcErrors \cup { RpcOk(g) : g \in Amounts } :
        LET block_date == datetime_from_u256_timestamp(locals.block_info.timestamp) IN
        /\ resps' = Append(resps, resp)
        /\ IF ~resp.ok
           THEN simple_returns(Err(<<"rpc", resp.err>>))
           ELSE IF block_date = None
           THEN simple_returns(Err(<<"Failed to found block date in block info">>))
           ELSE IF IsSome(simple_token_call(args, locals.block_number))
           THEN /\ locals' = [block_info |-> locals.block_info,
                              block_number |-> locals.block_number,
                              gas_balance |-> Some(resp.value),
                              block_date |-> Unwrap(block_date)]
                /\ calls' = Append(calls, Unwrap(simple_token_call(args, locals.block_number)))
                /\ pc' = "simple_eth_call"
                /\ UNCHANGED <<simple_ret, result>>
           ELSE simple_returns(Ok([gas_balance |-> Some(resp.value),
                                   token_balance |-> None,
                                   block_number |-> locals.block_number,
                                   block_datetime |-> Unwrap(block_date)]))
    /\ UNCHANGED <<op, args>>

\* the check of the balanceOf answer (eth.rs:620-626)
fits_in_u256(bytes) == Len(bytes) <= 32
is_balance_response(bytes) == Len(bytes) = 32

\* the balanceOf eth_call returns in get_balance_simple (eth.rs:618-636)
simple_eth_call_returns ==
    /\ pc = "simple_eth_call"
    /\ \E resp \in RpcErrors \cup { RpcOk(b) : b \in RawReturns } :
        /\ resps' = Append(resps, resp)
        /\ IF ~resp.ok
           THEN simple_returns(Err(<<"rpc", resp.err>>))
           ELSE IF ~is_balance_response(resp.value)
           THEN simple_returns(Err(<<"Invalid balance response. Probably not a valid ERC20 contract",
                                     resp.value, calls[Len(calls)].to>>))
           ELSE simple_returns(Ok([gas_balance |-> locals.gas_balance,
                                   token_balance |-> Some(BigEndian(resp.value)),
                                   block_number |-> locals.block_number,
                                   block_datetime |-> locals.block_date]))
    /\ UNCHANGED <<op, args>>

InitGetBalance ==
    /\ op = "get_balance"
    /\ pc = "start"
    /\ args \in GetBalanceArgs
    /\ calls = <<>>
    /\ resps = <<>>
    /\ locals = <<>>
    /\ simple_ret = None
    /\ result = None

NextGetBalance ==
    \/ get_balance
    \/ wrapper_eth_call_returns
    \/ simple_eth_block_returns
    \/ simple_eth_balance_returns
    \/ simple_eth_call_returns

SpecGetBalance == InitGetBalance /\ [][NextGetBalance]_vars

----------------------------------------------------------------------------
(* validate_deposit_eth (eth.rs:109-271) *)

\* strings returned by the lock contract: a text, or a JSON document that is
\* an array of {type, name} objects (SignatureParam, eth.rs:109-114)
Text(chars) == [doc |-> "text", chars |-> chars]
JsonArray(array) == [doc |-> "json", array |-> array]

ParamNames == {"id", "usage", "limit"}
ParamTypes == {"uint128", "bool"}
SignatureParams == [typ : ParamTypes, name : ParamNames]

RECURSIVE SeqsUpTo(_, _)
SeqsUpTo(S, n) ==
    IF n = 0 THEN { <<>> }
    ELSE SeqsUpTo(S, n - 1) \cup { Append(q, x) : q \in { t \in SeqsUpTo(S, n - 1) : Len(t) = n - 1 }, x \in S }

Schemas == SeqsUpTo(SignatureParams, MaxSchemaLen)

\* 2^128 in hexadecimal: 0x1 and thirty-two zeros
TwoTo128Text == <<"0","x","1">> \o [i \in 1..32 |-> "0"]

\* values the caller may supply for a parameter: "100", "0x64", "ff", "zz"
\* and 2^128
ValueTexts == { <<"1","0","0">>, <<"0","x","6","4">>, <<"f","f">>, <<"z","z">>, TwoTo128Text }

\* BTreeMap<String, String>: a function from the supplied names to their
\* values; an entry named "id", when supplied, holds "100", one named
\* "limit" holds "100" or 2^128, and one named "usage" any of the other texts
ArgMaps ==
    { m \in UNION { [D -> ValueTexts] : D \in SUBSET ParamNames } :
        /\ "id" \in DOMAIN m => m["id"] = <<"1","0","0">>
        /\ "limit" \in DOMAIN m => m["limit"] \in { <<"1","0","0">>, TwoTo128Text }
        /\ "usage" \in DOMAIN m => m["usage"] /= TwoTo128Text }

\* a U256 is its 32 big-endian bytes; U256::from of a small integer
U256_from(n) ==
    [i \in 1..32 |-> IF i = 32 THEN n % 256
                     ELSE IF i = 31 THEN (n \div 256) % 256
                     ELSE IF i = 30 THEN (n \div 65536) % 256
                     ELSE IF i = 29 THEN (n \div 16777216) % 256
                     ELSE 0]

DepositIds == { U256_from(11), U256_from(12) }

ValidateDepositArgs ==
    [deposit_id : DepositIds,
     lock_contract_address : {"lock"},
     validate_args : ArgMaps,
     block_number : {None} \cup { Some(n) : n \in Blocks }]

\* answers of the lock contract to validateDeposit
Valid == Text(<<"v","a","l","i","d">>)
Verdicts == { Valid,
              Text(<<"V","a","l","i","d">>),
              Text(<<"v","a","l","i","d"," ">>),
              Text(<<>>),
              Text(<<"e","x","p","i","r","e","d">>) }

\* ABI-encoded answers to a call that returns one string
StringReturns(S) == { Malformed } \cup [abi : {"string"}, s : S]

\* ethabi_decode_string_result (eth.rs:116-139)
ethabi_decode_string_result(bytes) ==
    IF bytes.abi /= "string"
    THEN Err(<<"Failed to decode deposit view from bytes">>)
    ELSE Ok(bytes.s)

\* serde_json::from_str::<Vec<SignatureParam>> (eth.rs:174-175)
parse_or_empty(str) == IF str.doc /= "json" THEN Ok(<<>>) ELSE Ok(str.array)
parse_signature_params(str) ==
    IF str.doc /= "json"
    THEN Err(<<"Failed to parse signature params">>)
    ELSE Ok(str.array)

DecDigits == <<"0","1","2","3","4","5","6","7","8","9">>
HexDigits == <<"0","1","2","3","4","5","6","7","8","9","a","b","c","d","e","f">>
DigitValue(digits, c) == (CHOOSE k \in 1..Len(digits) : digits[k] = c) - 1
IsDigit(digits, c) == \E k \in 1..Len(digits) : digits[k] = c

RECURSIVE PositionalValue(_, _)
PositionalValue(digits, s) ==
    IF s = <<>> THEN 0
    ELSE Len(digits) * PositionalValue(digits, SubSeq(s, 1, Len(s) - 1)) + DigitValue(digits, s[Len(s)])

\* U256::from_dec_str (eth.rs:196)
from_dec_str(s) ==
    IF \A i \in 1..Len(s) : IsDigit(DecDigits, s[i])
    THEN Ok(U256_from(PositionalValue(DecDigits, s)))
    ELSE Err(<<"InvalidCharacter">>)

\* hexadecimal digits, either case, into `width` bytes, left-padded with zero
hex_bytes(digits, width) ==
    LET lower == to_lowercase(digits)
        pad == 2 * width - Len(digits)
        nibble(i) == IF i <= pad THEN 0 ELSE DigitValue(HexDigits, lower[i - pad])
    IN [b \in 1..width |-> 16 * nibble(2 * b - 1) + nibble(2 * b)]

\* U256::from_str: at most 64 hexadecimal digits, with an optional 0x prefix
\* (eth.rs:199)
strip_0x(s) == IF Len(s) >= 2 /\ SubSeq(s, 1, 2) = <<"0","x">> THEN SubSeq(s, 3, Len(s)) ELSE s
from_str(s) ==
    LET digits == to_lowercase(strip_0x(s)) IN
    IF Len(digits) > 64 THEN Err(<<"Invalid input length">>)
    ELSE IF \A i \in 1..Len(digits) : IsDigit(HexDigits, digits[i])
    THEN Ok(hex_bytes(digits, 32))
    ELSE Err(<<"Invalid character">>)

parse_hex_first(param_name, param_value) ==
    IF from_str(param_value).kind = "Ok" THEN from_str(param_value)
    ELSE IF from_dec_str(param_value).kind = "Ok" THEN from_dec_str(param_value)
    ELSE Err(<<"Invalid value for parameter", param_name>>)

\* the value of a uint128 parameter (eth.rs:196-206)
parse_value(param_name, param_value) ==
    LET res_value == from_dec_str(param_value)
        value == from_str(param_value)
    IN IF res_value.kind = "Ok" THEN res_value
       ELSE IF value.kind = "Ok" THEN value
       ELSE Err(<<"Invalid value for parameter", param_name>>)

Param(name, kind) == [name |-> name, kind |-> kind]
Uint(v) == <<"Uint", v>>

\* the value bound to the parameter named "id" (eth.rs:189)
id_from_validate_args(deposit_id, validate_args) ==
    IF "id" \in DOMAIN validate_args /\ from_dec_str(validate_args["id"]).kind = "Ok"
    THEN Uint(from_dec_str(validate_args["id"]).value)
    ELSE Uint(deposit_id)
id_token(deposit_id, validate_args) == Uint(deposit_id)

\* BTreeMap::get (eth.rs:192)
get_or_default(validate_args, param_name) ==
    IF param_name \in DOMAIN validate_args THEN Some(validate_args[param_name]) ELSE Some(<<"0">>)
get_any_supplied(validate_args, param_name) ==
    IF param_name \in DOMAIN validate_args THEN Some(validate_args[param_name])
    ELSE IF DOMAIN validate_args /= {}
    THEN Some(validate_args[CHOOSE n \in DOMAIN validate_args : TRUE])
    ELSE None
get(validate_args, param_name) ==
    IF param_name \in DOMAIN validate_args THEN Some(validate_args[param_name]) ELSE None

\* the declared types the validator accepts (eth.rs:195)
any_type_supported(typ) == TRUE
is_supported_type(typ) == typ = "uint128"

match_param_id_not_recorded(acc, signature_param, a) ==
    IF signature_param.name = "id"
    THEN Ok([matched_params |-> acc.matched_params,
             function_params |-> Append(acc.function_params, Param("id", <<"Uint", 256>>)),
             function_values |-> Append(acc.function_values, id_token(a.deposit_id, a.validate_args))])
    ELSE IF IsSome(get(a.validate_args, signature_param.name))
    THEN IF is_supported_type(signature_param.typ)
         THEN LET value == parse_value(signature_param.name,
                                       Unwrap(get(a.validate_args, signature_param.name))) IN
              IF value.kind /= "Ok" THEN value
              ELSE Ok([matched_params |-> Append(acc.matched_params, signature_param.name),
                       function_params |-> Append(acc.function_params,
                                                  Param(signature_param.name, <<"Uint", 128>>)),
                       function_values |-> Append(acc.function_values, Uint(value.value))])
         ELSE Err(<<"Unsupported type for parameter", signature_param.name, signature_param.typ>>)
    ELSE Err(<<"Missing required parameter", signature_param.name>>)

\* one iteration of the loop over signature_params (eth.rs:180-230): acc holds
\* matched_params, function_params and function_values
match_param(acc, signature_param, a) ==
    IF signature_param.name = "id"
    THEN Ok([matched_params |-> Append(acc.matched_params, "id"),
             function_params |-> Append(acc.function_params, Param("id", <<"Uint", 256>>)),
             function_values |-> Append(acc.function_values, id_token(a.deposit_id, a.validate_args))])
    ELSE IF IsSome(get(a.validate_args, signature_param.name))
    THEN IF is_supported_type(signature_param.typ)
         THEN LET value == parse_value(signature_param.name,
                                       Unwrap(get(a.validate_args, signature_param.name))) IN
              IF value.kind /= "Ok" THEN value
              ELSE Ok([matched_params |-> Append(acc.matched_params, signature_param.name),
                       function_params |-> Append(acc.function_params,
                                                  Param(signature_param.name, <<"Uint", 128>>)),
                       function_values |-> Append(acc.function_values, Uint(value.value))])
         ELSE Err(<<"Unsupported type for parameter", signature_param.name, signature_param.typ>>)
    ELSE Err(<<"Missing required parameter", signature_param.name>>)

\* the loop of eth.rs:177-230 over signature_params[i..]
RECURSIVE match_params(_, _, _, _)
match_params(acc, signature_params, i, a) ==
    IF i > Len(signature_params) THEN Ok(acc)
    ELSE LET r == match_param(acc, signature_params[i], a) IN
         IF r.kind /= "Ok" THEN r
         ELSE match_params(r.value, signature_params, i + 1, a)

\* the converse check of eth.rs:232-239
InSeq(x, q) == \E k \in 1..Len(q) : q[k] = x
check_all_matched(acc, signature_params) ==
    IF \E k \in 1..Len(signature_params) : ~InSeq(signature_params[k].name, acc.matched_params)
    THEN Err(<<"Missing required parameter",
               signature_params[CHOOSE k \in 1..Len(signature_params) :
                   /\ ~InSeq(signature_params[k].name, acc.matched_params)
                   /\ \A j \in 1..(k - 1) : InSeq(signature_params[j].name, acc.matched_params)].name>>)
    ELSE Ok(acc)

encode_validate_contract_range_checked(params, values) ==
    IF Len(params) /= Len(values)
    THEN Err(<<"InvalidData">>)
    ELSE IF \E k \in 1..Len(params) :
                params[k].kind = <<"Uint", 128>> /\ \E i \in 1..16 : values[k][2][i] /= 0
    THEN Err(<<"InvalidData">>)
    ELSE Ok(CallData("validateDeposit", params, values))

\* contracts.rs encode_validate_contract: Function::encode_input fails when the
\* values do not fit the parameters
encode_validate_contract(params, values) ==
    IF Len(params) /= Len(values)
    THEN Err(<<"InvalidData">>)
    ELSE Ok(CallData("validateDeposit", params, values))

\* the code between the answer to getValidateDepositSignature and the
\* validateDeposit call (eth.rs:172-255): Ok(call data) or the error returned
prepare_validate_call(a, bytes) ==
    LET str == ethabi_decode_string_result(bytes) IN
    IF str.kind /= "Ok" THEN str
    ELSE LET signature_params == parse_signature_params(str.value) IN
    IF signature_params.kind /= "Ok" THEN signature_params
    ELSE LET m == match_params([matched_params |-> <<>>, function_params |-> <<>>,
                                function_values |-> <<>>], signature_params.value, 1, a) IN
    IF m.kind /= "Ok" THEN m
    ELSE LET c == check_all_matched(m.value, signature_params.value) IN
    IF c.kind /= "Ok" THEN c
    ELSE LET data == encode_validate_contract(c.value.function_params, c.value.function_values) IN
    IF data.kind /= "Ok" THEN Panic("called Result::unwrap() on an Err value")
    ELSE Ok([data |-> data.value, signature_params |-> signature_params.value,
             matched_params |-> c.value.matched_params])

\* the getValidateDepositSignature call (eth.rs:159-170)
encode_get_validate_deposit_signature == CallData("getValidateDepositSignature", <<>>, <<>>)
signature_call(a) ==
    EthCall(None, a.lock_contract_address, encode_get_validate_deposit_signature, None)

\* the validateDeposit call (eth.rs:247-263)
validate_call_at_latest(a, data, block_number) ==
    EthCall(None, a.lock_contract_address, data, None)
validate_call(a, data, block_number) ==
    EthCall(None, a.lock_contract_address, data, Some(Number(block_number)))

\* the verdict (eth.rs:265-270)
verdict_ignoring_case(str) ==
    IF to_lowercase(str.chars) = Valid.chars THEN [verdict |-> "Valid"]
    ELSE [verdict |-> "Invalid", reason |-> str]
verdict_of(str) ==
    IF str = Valid THEN [verdict |-> "Valid"]
    ELSE [verdict |-> "Invalid", reason |-> str]

returns(ret) ==
    /\ result' = Some(ret)
    /\ pc' = "done"
    /\ UNCHANGED <<calls, locals>>

\* the if-let of eth.rs:148-157: the block number when the caller supplied it
always_current_block(a) == None
explicit_block(a) == a.block_number

\* entry of validate_deposit_eth up to its first .await (eth.rs:141-169)
validate_deposit_eth ==
    /\ op = "validate_deposit_eth"
    /\ pc = "start"
    /\ IF IsSome(explicit_block(args))
       THEN /\ locals' = [block_number |-> Unwrap(explicit_block(args))]
            /\ calls' = Append(calls, signature_call(args))
            /\ pc' = "signature_eth_call"
       ELSE /\ calls' = Append(calls, EthBlockNumber)
            /\ pc' = "eth_block_number"
            /\ UNCHANGED locals
    /\ UNCHANGED <<op, args, resps, simple_ret, result>>

\* eth_block_number returns (eth.rs:152-169)
validate_eth_block_number_returns ==
    /\ pc = "eth_block_number"
    /\ \E resp \in RpcErrors \cup { RpcOk(n) : n \in Blocks } :
        /\ resps' = Append(resps, resp)
        /\ IF ~resp.ok
           THEN returns(Err(<<"rpc", resp.err>>))
           ELSE /\ locals' = [block_number |-> resp.value]
                /\ calls' = Append(calls, signature_call(args))
                /\ pc' = "signature_eth_call"
                /\ UNCHANGED result
    /\ UNCHANGED <<op, args, simple_ret>>

\* the getValidateDepositSignature call returns (eth.rs:170-261)
validate_signature_call_returns ==
    /\ pc = "signature_eth_call"
    /\ \E resp \in RpcErrors \cup
                  { RpcOk(b) : b \in StringReturns({ Text(<<"[">>) } \cup { JsonArray(q) : q \in Schemas }) } :
        /\ resps' = Append(resps, resp)
        /\ IF ~resp.ok
           THEN returns(Err(<<"rpc", resp.err>>))
           ELSE LET c == prepare_validate_call(args, resp.value) IN
                IF c.kind /= "Ok"
                THEN returns(c)
                ELSE /\ locals' = [block_number |-> locals.block_number,
                                   signature_params |-> c.value.signature_params,
                                   matched_params |-> c.value.matched_params]
                     /\ calls' = Append(calls, validate_call(args, c.value.data, locals.block_number))
                     /\ pc' = "validate_eth_call"
                     /\ UNCHANGED result
    /\ UNCHANGED <<op, args, simple_ret>>

\* the validateDeposit call returns (eth.rs:262-271)
validate_call_returns ==
    /\ pc = "validate_eth_call"
    /\ \E resp \in RpcErrors \cup { RpcOk(b) : b \in StringReturns(Verdicts) } :
        /\ resps' = Append(resps, resp)
        /\ IF ~resp.ok
           THEN returns(Err(<<"rpc", resp.err>>))
           ELSE LET str == ethabi_decode_string_result(resp.value) IN
                IF str.kind /= "Ok"
                THEN returns(str)
                ELSE returns(Ok(verdict_of(str.value)))
    /\ UNCHANGED <<op, args, simple_ret>>

InitValidateDeposit ==
    /\ op = "validate_deposit_eth"
    /\ pc = "start"
    /\ args \in ValidateDepositArgs
    /\ calls = <<>>
    /\ resps = <<>>
    /\ locals = <<>>
    /\ simple_ret = None
    /\ result = None

NextValidateDeposit ==
    \/ validate_deposit_eth
    \/ validate_eth_block_number_returns
    \/ validate_signature_call_returns
    \/ validate_call_returns

SpecValidateDeposit == InitValidateDeposit /\ [][NextValidateDeposit]_vars

----------------------------------------------------------------------------
(* Deposit id codec: eth.rs deposit_id_from_nonce, nonce_from_deposit_id and
   DepositId::funder.  A U256 deposit id is held as its 32 big-endian bytes,
   an Address as its 20 bytes, and a u64 as four 16-bit words, most
   significant first, so that all 64 bits of a nonce can be exercised. *)

\* funder addresses: zero, all bytes different, all ones, lowest byte only
Funders ==
    { [i \in 1..20 |-> 0], [i \in 1..20 |-> i], [i \in 1..20 |-> 255],
      [i \in 1..20 |-> IF i = 20 THEN 1 ELSE 0] }

NonceWords == {0, 258, 65535}
Nonces == [1..4 -> NonceWords]

LockAddress == [i \in 1..20 |-> 170]

DepositIdArgs == [funder : Funders, nonce : Nonces]

\* u64::to_be_bytes
to_be_bytes(n) ==
    [i \in 1..8 |-> IF i % 2 = 1 THEN n[(i + 1) \div 2] \div 256 ELSE n[i \div 2] % 256]

\* u64::from_be_bytes
from_be_bytes(bytes) == [k \in 1..4 |-> 256 * bytes[2 * k - 1] + bytes[2 * k]]

\* U256::from_big_endian on a slice of at most 32 bytes: shorter slices are
\* the low-order bytes
from_big_endian(slice) ==
    [i \in 1..32 |-> IF i <= 32 - Len(slice) THEN 0 ELSE slice[i - (32 - Len(slice))]]

\* U256::to_big_endian into a 32-byte buffer
to_big_endian(x) == [i \in 1..32 |-> x[i]]

nonce_after_funder(funder, nonce) ==
    from_big_endian([i \in 1..32 |->
        IF i <= 20 THEN funder[i]
        ELSE IF i <= 28 THEN to_be_bytes(nonce)[i - 20]
        ELSE 0])

\* eth.rs deposit_id_from_nonce: slice[0..20] = funder, slice[24..32] = nonce
deposit_id_from_nonce(funder, nonce) ==
    from_big_endian([i \in 1..32 |->
        IF i <= 20 THEN funder[i]
        ELSE IF i >= 25 THEN to_be_bytes(nonce)[i - 24]
        ELSE 0])

nonce_from_low_bytes_shifted(deposit_id) ==
    from_be_bytes(SubSeq(to_big_endian(deposit_id), 24, 31))

\* eth.rs nonce_from_deposit_id: slice[24..32] of the big-endian bytes
nonce_from_deposit_id(deposit_id) ==
    from_be_bytes(SubSeq(to_big_endian(deposit_id), 25, 32))

\* deposit_id.rs DepositId::funder: bytes[0..20] of the big-endian bytes
funder(self) == SubSeq(to_big_endian(self.deposit_id), 1, 20)

\* the bitwise and of two bytes
RECURSIVE bitand(_, _)
bitand(a, b) ==
    IF a = 0 \/ b = 0 THEN 0
    ELSE 2 * bitand(a \div 2, b \div 2) + (a % 2) * (b % 2)

\* U256::as_u64: the low 64 bits, a panic when a higher bit is set
low_u64(x) ==
    IF \E i \in 1..24 : x[i] /= 0 THEN Panic("Integer overflow when casting to u64")
    ELSE Ok(from_be_bytes(SubSeq(x, 25, 32)))

nonce_of_low_32_bits(self) ==
    low_u64([i \in 1..32 |->
        bitand(self.deposit_id[i], from_big_endian(to_be_bytes(<<0, 0, 65535, 65535>>))[i])])

\* deposit_id.rs DepositId::nonce: the id masked with 0xffffffffffffffff
nonce(self) ==
    low_u64([i \in 1..32 |->
        bitand(self.deposit_id[i], from_big_endian(to_be_bytes(<<65535, 65535, 65535, 65535>>))[i])])

\* 256-bit ids for the two nonce extractors: the packed ones, and ids with
\* bits set between the funder and the nonce
NonceInputs ==
    { deposit_id_from_nonce(a.funder, a.nonce) : a \in DepositIdArgs }
        \cup { [i \in 1..32 |-> 255], [i \in 1..32 |-> i], [i \in 1..32 |-> IF i = 24 THEN 1 ELSE 0],
               [i \in 1..32 |-> IF i = 25 THEN 128 ELSE 0] }

\* the caller reads the nonce of an id with both extractors
nonce_call ==
    /\ op = "nonce"
    /\ pc = "start"
    /\ result' = Some(Ok([nonce |-> nonce([deposit_id |-> args.deposit_id,
                                            lock_address |-> LockAddress]),
                          nonce_from_deposit_id |-> nonce_from_deposit_id(args.deposit_id)]))
    /\ pc' = "done"
    /\ UNCHANGED <<op, args, calls, resps, locals, simple_ret>>

\* the caller packs a funder and a nonce
pack_deposit_id ==
    /\ op = "deposit_id"
    /\ pc = "start"
    /\ locals' = [deposit_id |-> deposit_id_from_nonce(args.funder, args.nonce)]
    /\ pc' = "packed"
    /\ UNCHANGED <<op, args, calls, resps, simple_ret, result>>

\* the caller reads the nonce and the funder back
unpack_deposit_id ==
    /\ op = "deposit_id"
    /\ pc = "packed"
    /\ result' = Some(Ok([nonce |-> nonce_from_deposit_id(locals.deposit_id),
                          funder |-> funder([deposit_id |-> locals.deposit_id,
                                             lock_address |-> LockAddress])]))
    /\ pc' = "done"
    /\ UNCHANGED <<op, args, calls, resps, locals, simple_ret>>

\* two hexadecimal digits per byte, lower case
lower_hex(bytes) ==
    [i \in 1..(2 * Len(bytes)) |->
        IF i % 2 = 1 THEN HexDigits[(bytes[(i + 1) \div 2] \div 16) + 1]
        ELSE HexDigits[(bytes[i \div 2] % 16) + 1]]

\* format!("{:#x}") of a U256: 0x and the digits without leading zeros, 0x0
\* for zero
fmt_u256(bytes) ==
    IF \A i \in 1..Len(bytes) : bytes[i] = 0 THEN <<"0", "x", "0">>
    ELSE <<"0", "x">> \o SubSeq(lower_hex(bytes),
                                CHOOSE k \in 1..(2 * Len(bytes)) :
                                    /\ lower_hex(bytes)[k] /= "0"
                                    /\ \A j \in 1..(k - 1) : lower_hex(bytes)[j] = "0",
                                2 * Len(bytes))

\* format!("{:#x}") of an Address: 0x and all forty digits
fmt_address(bytes) == <<"0", "x">> \o lower_hex(bytes)

\* deposit_id.rs DepositId::to_db_string
to_db_string(self) == fmt_u256(self.deposit_id) \o <<"-">> \o fmt_address(self.lock_address)

\* str::split(sep).collect(): the parts between the separators
RECURSIVE split(_, _)
split(str, sep) ==
    IF \A i \in 1..Len(str) : str[i] /= sep THEN << str >>
    ELSE LET k == CHOOSE i \in 1..Len(str) : str[i] = sep /\ \A j \in 1..(i - 1) : str[j] /= sep
         IN << SubSeq(str, 1, k - 1) >> \o split(SubSeq(str, k + 1, Len(str)), sep)

\* U256::from_str_radix(txt, 16): an optional 0x, then at most 64 digits
from_str_radix(txt) ==
    IF Len(strip_0x(txt)) > 64 THEN Err(<<"Invalid depositId", "InvalidLength">>)
    ELSE IF \E i \in 1..Len(strip_0x(txt)) : ~IsDigit(HexDigits, to_lowercase(strip_0x(txt))[i])
    THEN Err(<<"Invalid depositId", "InvalidCharacter">>)
    ELSE Ok(hex_bytes(strip_0x(txt), 32))

\* Address::from_str: an optional 0x, then exactly 40 digits
Address_from_str(txt) ==
    IF \E i \in 1..Len(strip_0x(txt)) : ~IsDigit(HexDigits, to_lowercase(strip_0x(txt))[i])
    THEN Err(<<"Invalid lockAddress", "InvalidCharacter">>)
    ELSE IF Len(strip_0x(txt)) /= 40 THEN Err(<<"Invalid lockAddress", "InvalidHexLength">>)
    ELSE Ok(hex_bytes(strip_0x(txt), 20))

any_number_of_parts(parts) == Len(parts) >= 2

\* the check of deposit_id.rs:30
has_two_parts(parts) == Len(parts) = 2

\* deposit_id.rs DepositId::from_db_string
from_db_string(str) ==
    IF ~has_two_parts(split(str, "-")) THEN Err(<<"Invalid depositId format">>)
    ELSE IF from_str_radix(split(str, "-")[1]).kind /= "Ok" THEN from_str_radix(split(str, "-")[1])
    ELSE IF Address_from_str(split(str, "-")[2]).kind /= "Ok" THEN Address_from_str(split(str, "-")[2])
    ELSE Ok([deposit_id |-> from_str_radix(split(str, "-")[1]).value,
             lock_address |-> Address_from_str(split(str, "-")[2]).value])

\* strings handed to from_db_string that no to_db_string produced
DbTexts ==
    { <<>>, <<"-">>, <<"0","x","1">>, <<"1","-","2","-","3">>, <<"z","-","1">>, <<"1","-","1">>,
      <<"0","x","1","-">> \o fmt_address(LockAddress) \o <<"-">>,
      <<"F","F","-">> \o lower_hex(LockAddress) }

\* a caller serialises a DepositId
to_db_string_call ==
    /\ op = "to_db_string"
    /\ pc = "start"
    /\ locals' = [text |-> to_db_string(args)]
    /\ pc' = "text"
    /\ UNCHANGED <<op, args, calls, resps, simple_ret, result>>

\* a caller parses a string: the one just produced, or one from elsewhere
from_db_string_call ==
    /\ op \in {"to_db_string", "from_db_string"}
    /\ pc = (IF op = "to_db_string" THEN "text" ELSE "start")
    /\ result' = Some(from_db_string(IF op = "to_db_string" THEN locals.text ELSE args.text))
    /\ pc' = "done"
    /\ UNCHANGED <<op, args, calls, resps, locals, simple_ret>>

\* ethabi Function::short_signature of transfer(address,uint256): a9059cbb
transfer_selector == <<169, 5, 156, 187>>

address_word_padded_right(address) == address \o [i \in 1..12 |-> 0]

\* ethabi's encoding of Token::Address: the 20 bytes right-aligned in a word
address_word(address) == [i \in 1..12 |-> 0] \o address

\* contracts.rs encode_erc20_transfer through contract_encode: the selector,
\* then the address word and the amount word (Token::Uint, big-endian)
encode_erc20_transfer(address, amount) ==
    transfer_selector \o address_word(address) \o to_big_endian(amount)

\* ethabi Function::decode_input for transfer(address,uint256) after the
\* selector: ethabi::decode of [Address, Uint(256)]
decode_erc20_transfer(bytes) ==
    IF Len(bytes) < 4 + 2 * 32 THEN Err(<<"InvalidData">>)
    ELSE IF SubSeq(bytes, 1, 4) /= transfer_selector THEN Err(<<"InvalidData">>)
    ELSE Ok([address |-> SubSeq(bytes, 4 + 13, 4 + 32),
             amount |-> from_big_endian(SubSeq(bytes, 4 + 33, 4 + 64))])

\* a caller encodes a transfer
encode_erc20_transfer_call ==
    /\ op = "encode_erc20_transfer"
    /\ pc = "start"
    /\ locals' = [data |-> encode_erc20_transfer(args.address, args.amount)]
    /\ pc' = "encoded"
    /\ UNCHANGED <<op, args, calls, resps, simple_ret, result>>

\* the produced bytes are decoded against the transfer signature
decode_erc20_transfer_call ==
    /\ op = "encode_erc20_transfer"
    /\ pc = "encoded"
    /\ result' = Some(decode_erc20_transfer(locals.data))
    /\ pc' = "done"
    /\ UNCHANGED <<op, args, calls, resps, locals, simple_ret>>

InitDepositId ==
    /\ pc = "start"
    /\ calls = <<>>
    /\ resps = <<>>
    /\ locals = <<>>
    /\ simple_ret = None
    /\ result = None
    /\ op \in {"deposit_id", "to_db_string", "from_db_string", "encode_erc20_transfer", "nonce"}
    /\ CASE op = "deposit_id" -> args \in DepositIdArgs
         [] op = "nonce" -> args \in [deposit_id : NonceInputs]
         [] op = "to_db_string" ->
              args \in [deposit_id : { deposit_id_from_nonce(a.funder, a.nonce) : a \in DepositIdArgs },
                        lock_address : {LockAddress, [i \in 1..20 |-> IF i = 20 THEN 10 ELSE 0]}]
         [] op = "from_db_string" -> args \in [text : DbTexts]
         [] op = "encode_erc20_transfer" ->
              args \in [address : Funders,
                        amount : { deposit_id_from_nonce(a.funder, a.nonce) : a \in DepositIdArgs }]

NextDepositId ==
    \/ nonce_call
    \/ pack_deposit_id
    \/ unpack_deposit_id
    \/ to_db_string_call
    \/ from_db_string_call
    \/ encode_erc20_transfer_call
    \/ decode_erc20_transfer_call

SpecDepositId == InitDepositId /\ [][NextDepositId]_vars

----------------------------------------------------------------------------
(* get_deposit_details (eth.rs:403-458) and DepositView (eth.rs:48-94) *)

\* the k-th 32-byte word of an ABI-encoded buffer
Word(bytes, k) == SubSeq(bytes, 32 * (k - 1) + 1, 32 * k)

\* U256::as_u64 / as_u128 on a decoded word: panics when a byte above the
\* low `width` bytes is set; the narrowed integer is held as its big-endian
\* bytes
narrow(word, width) ==
    IF \E i \in 1..(32 - width) : word[i] /= 0
    THEN Panic("Integer overflow when casting")
    ELSE Ok(SubSeq(word, 33 - width, 32))

\* answers of the lock contract to getDeposit: six words (id, nonce, funder,
\* spender, amount, validTo) with several validTo words, and prefixes and
\* extensions of such an answer
ValidToWords ==
    { BytesOf(32, t) : t \in 0..(MaxTimestamp + 1) } \cup
    { [i \in 1..32 |-> IF i = 25 THEN 128 ELSE 0], [i \in 1..32 |-> IF i = 24 THEN 1 ELSE 0] }
DepositWords(valid_to) ==
    BytesOf(32, 11) \o BytesOf(32, 1) \o BytesOf(32, 5) \o BytesOf(32, 6) \o BytesOf(32, 1) \o valid_to
DepositReturns ==
    { DepositWords(w) : w \in ValidToWords } \cup
    { SubSeq(DepositWords(BytesOf(32, 1)), 1, n) : n \in {0, 32, 160, 191} } \cup
    { DepositWords(BytesOf(32, 1)) \o BytesOf(n, 0) : n \in {1, 32} }

\* eth.rs:67-92: ethabi::decode of the six static words and the narrowing of
\* nonce, amount and valid_to
decode_deposit_words(bytes) ==
    IF narrow(Word(bytes, 2), 8).kind = "Panic" THEN narrow(Word(bytes, 2), 8)
    ELSE IF narrow(Word(bytes, 5), 16).kind = "Panic" THEN narrow(Word(bytes, 5), 16)
    ELSE IF narrow(Word(bytes, 6), 8).kind = "Panic" THEN narrow(Word(bytes, 6), 8)
    ELSE Ok([id |-> BigEndian(Word(bytes, 1)),
             nonce |-> narrow(Word(bytes, 2), 8).value,
             funder |-> SubSeq(Word(bytes, 3), 13, 32),
             spender |-> SubSeq(Word(bytes, 4), 13, 32),
             amount |-> narrow(Word(bytes, 5), 16).value,
             valid_to |-> narrow(Word(bytes, 6), 8).value])

decode_leading_words(bytes) ==
    IF Len(bytes) < 6 * 32
    THEN Err(<<"Failed to decode deposit view from bytes">>)
    ELSE decode_deposit_words(bytes)

\* DepositView::decode_from_bytes
decode_from_bytes(bytes) ==
    IF Len(bytes) /= 6 * 32
    THEN Err(<<"Invalid response length", Len(bytes), 6 * 32>>)
    ELSE decode_deposit_words(bytes)

\* eth.rs:438-445: valid_to as i64 (try_into), then
\* chrono::DateTime::from_timestamp
deposit_valid_to(valid_to) ==
    IF valid_to[1] >= 128 THEN Err(<<"Cast error">>)
    ELSE IF BigEndian(valid_to) > MaxTimestamp
    THEN Err(<<"Deposit timestamp out of range">>)
    ELSE Ok(BigEndian(valid_to))

\* the getDeposit call (eth.rs:420-432)
get_deposit_call(a, block_number) ==
    EthCall(None, a.lock_contract_address,
            CallData("getDeposit", <<"id">>, <<a.deposit_id>>), Some(Number(block_number)))

\* entry of get_deposit_details up to its first .await (eth.rs:403-432)
get_deposit_details ==
    /\ op = "get_deposit_details"
    /\ pc = "start"
    /\ IF IsSome(args.block_number)
       THEN /\ locals' = [block_number |-> Unwrap(args.block_number)]
            /\ calls' = Append(calls, get_deposit_call(args, Unwrap(args.block_number)))
            /\ pc' = "get_deposit_eth_call"
       ELSE /\ calls' = Append(calls, EthBlockNumber)
            /\ pc' = "deposit_eth_block_number"
            /\ UNCHANGED locals
    /\ UNCHANGED <<op, args, resps, simple_ret, result>>

\* eth_block_number returns (eth.rs:413-432)
deposit_eth_block_number_returns ==
    /\ pc = "deposit_eth_block_number"
    /\ \E resp \in RpcErrors \cup { RpcOk(n) : n \in Blocks } :
        /\ resps' = Append(resps, resp)
        /\ IF ~resp.ok
           THEN returns(Err(<<"rpc", resp.err>>))
           ELSE /\ locals' = [block_number |-> resp.value]
                /\ calls' = Append(calls, get_deposit_call(args, resp.value))
                /\ pc' = "get_deposit_eth_call"
                /\ UNCHANGED result
    /\ UNCHANGED <<op, args, simple_ret>>

\* the getDeposit call returns (eth.rs:431-457)
get_deposit_returns ==
    /\ pc = "get_deposit_eth_call"
    /\ \E resp \in RpcErrors \cup { RpcOk(b) : b \in DepositReturns } :
        /\ resps' = Append(resps, resp)
        /\ returns(
            IF ~resp.ok THEN Err(<<"rpc", resp.err>>)
            ELSE IF decode_from_bytes(resp.value).kind /= "Ok" THEN decode_from_bytes(resp.value)
            ELSE IF deposit_valid_to(decode_from_bytes(resp.value).value.valid_to).kind /= "Ok"
            THEN deposit_valid_to(decode_from_bytes(resp.value).value.valid_to)
            ELSE Ok([deposit_id |-> decode_from_bytes(resp.value).value.id,
                     deposit_nonce |-> decode_from_bytes(resp.value).value.nonce,
                     funder |-> decode_from_bytes(resp.value).value.funder,
                     spender |-> decode_from_bytes(resp.value).value.spender,
                     amount |-> decode_from_bytes(resp.value).value.amount,
                     current_block |-> locals.block_number,
                     valid_to |-> deposit_valid_to(decode_from_bytes(resp.value).value.valid_to).value]))
    /\ UNCHANGED <<op, args, simple_ret>>

----------------------------------------------------------------------------
(* get_attestation_details (eth.rs:341-401), get_schema_details
   (eth.rs:281-325) and check_allowance (eth.rs:723-764) *)

\* erc20_payment_lib_common::utils::datetime_from_u256_with_option: None for
\* zero, which the registry uses for "no time", and for no calendar instant
datetime_from_u256_with_option(ts) ==
    IF ts = 0 THEN None ELSE datetime_from_u256_timestamp(ts)

\* answers of the attestation registry to getAttestation: a well-formed
\* 10-tuple, or bytes that are no such tuple
AttestationReturns ==
    { Malformed } \cup
    [abi : {"tuple10"}, uid : {BytesOf(32, 0), BytesOf(32, 9)}, schema : {BytesOf(32, 3)},
     time : 0..(MaxTimestamp + 1), expiration_time : 0..1, revocation_time : {0},
     ref_uid : {BytesOf(32, 0)}, recipient : {"recipient"}, attester : {"attester"},
     revocable : {TRUE}, data : {BytesOf(32, 7)}]

attestation_converted_first(bytes) ==
    IF bytes.abi /= "tuple10"
    THEN Err(<<"Failed to decode attestation view from bytes">>)
    ELSE IF datetime_from_u256_with_option(bytes.time) = None
    THEN Err(<<"Attestation timestamp out of range">>)
    ELSE IF bytes.uid = [i \in 1..32 |-> 0] THEN Ok(None)
    ELSE Ok(Some([uid |-> bytes.uid, schema |-> bytes.schema,
                  time |-> Unwrap(datetime_from_u256_with_option(bytes.time)),
                  expiration_time |-> datetime_from_u256_with_option(bytes.expiration_time),
                  revocation_time |-> datetime_from_u256_with_option(bytes.revocation_time),
                  ref_uid |-> bytes.ref_uid, recipient |-> bytes.recipient,
                  attester |-> bytes.attester, revocable |-> bytes.revocable,
                  data |-> bytes.data]))

\* eth.rs:357-400: the answer of getAttestation decoded
decode_attestation(bytes) ==
    IF bytes.abi /= "tuple10"
    THEN Err(<<"Failed to decode attestation view from bytes">>)
    ELSE IF bytes.uid = [i \in 1..32 |-> 0] THEN Ok(None)
    ELSE IF datetime_from_u256_with_option(bytes.time) = None
    THEN Err(<<"Attestation timestamp out of range">>)
    ELSE Ok(Some([uid |-> bytes.uid, schema |-> bytes.schema,
                  time |-> Unwrap(datetime_from_u256_with_option(bytes.time)),
                  expiration_time |-> datetime_from_u256_with_option(bytes.expiration_time),
                  revocation_time |-> datetime_from_u256_with_option(bytes.revocation_time),
                  ref_uid |-> bytes.ref_uid, recipient |-> bytes.recipient,
                  attester |-> bytes.attester, revocable |-> bytes.revocable,
                  data |-> bytes.data]))

\* entry of get_attestation_details up to its .await (eth.rs:341-355)
get_attestation_details ==
    /\ op = "get_attestation_details"
    /\ pc = "start"
    /\ calls' = Append(calls, EthCall(None, args.eas_contract_address,
                                      CallData("getAttestation", <<"uid">>, <<args.uid>>), None))
    /\ pc' = "get_attestation_eth_call"
    /\ UNCHANGED <<op, args, resps, locals, simple_ret, result>>

\* the getAttestation call returns (eth.rs:354-400)
get_attestation_returns ==
    /\ pc = "get_attestation_eth_call"
    /\ \E resp \in RpcErrors \cup { RpcOk(b) : b \in AttestationReturns } :
        /\ resps' = Append(resps, resp)
        /\ returns(IF resp.ok THEN decode_attestation(resp.value) ELSE Err(<<"rpc", resp.err>>))
    /\ UNCHANGED <<op, args, simple_ret>>

\* entry of get_schema_details up to its .await (eth.rs:281-295)
get_schema_details ==
    /\ op = "get_schema_details"
    /\ pc = "start"
    /\ calls' = Append(calls, EthCall(None, args.eas_schema_contract_address,
                                      CallData("getSchema", <<"uid">>, <<args.uid>>), None))
    /\ pc' = "get_schema_eth_call"
    /\ UNCHANGED <<op, args, resps, locals, simple_ret, result>>

\* the getSchema call returns (eth.rs:294-324): a well-formed 4-tuple is
\* copied into an AttestationSchema
get_schema_returns ==
    /\ pc = "get_schema_eth_call"
    /\ \E resp \in RpcErrors \cup { RpcOk(Malformed) } \cup
                  { RpcOk([abi |-> "tuple4", uid |-> BytesOf(32, u), resolver |-> "resolver",
                           revocable |-> r, schema |-> str]) :
                        u \in {0, 3}, r \in BOOLEAN, str \in Verdicts } :
        /\ resps' = Append(resps, resp)
        /\ returns(IF ~resp.ok THEN Err(<<"rpc", resp.err>>)
                   ELSE IF resp.value.abi /= "tuple4"
                   THEN Err(<<"Failed to decode attestation view from bytes">>)
                   ELSE Ok([uid |-> resp.value.uid, resolver |-> resp.value.resolver,
                            revocable |-> resp.value.revocable, schema |-> resp.value.schema]))
    /\ UNCHANGED <<op, args, simple_ret>>

\* entry of check_allowance up to its .await (eth.rs:723-746)
check_allowance ==
    /\ op = "check_allowance"
    /\ pc = "start"
    /\ calls' = Append(calls, EthCall(Some(args.owner), args.token,
                                      CallData("allowance", <<"owner", "spender">>,
                                               <<args.owner, args.spender>>), None))
    /\ pc' = "allowance_eth_call"
    /\ UNCHANGED <<op, args, resps, locals, simple_ret, result>>

\* the allowance call returns (eth.rs:744-763)
check_allowance_returns ==
    /\ pc = "allowance_eth_call"
    /\ \E resp \in RpcErrors \cup { RpcOk(b) : b \in RawReturns } :
        /\ resps' = Append(resps, resp)
        /\ returns(IF ~resp.ok THEN Err(<<"rpc", resp.err>>)
                   ELSE IF Len(resp.value) /= 32
                   THEN Err(<<"Invalid response from ERC20 allowance check", resp.value>>)
                   ELSE U256_from_big_endian(resp.value))
    /\ UNCHANGED <<op, args, simple_ret>>

----------------------------------------------------------------------------
(* The schema-driven decode of check_attestation_local (check.rs:119-144).
   Type names are one character: u for uint256, b for bool. *)

\* str::trim, for the space character
RECURSIVE trim(_)
trim(str) ==
    IF str = <<>> THEN str
    ELSE IF str[1] = " " THEN trim(SubSeq(str, 2, Len(str)))
    ELSE IF str[Len(str)] = " " THEN trim(SubSeq(str, 1, Len(str) - 1))
    ELSE str

\* ethabi::param_type::Reader::read
Reader_read(item_type) ==
    IF item_type \in {<<"u">>, <<"b">>} THEN Ok(item_type)
    ELSE Err(<<"Failed to read param type", item_type>>)

RECURSIVE read_items_skipping_invalid(_)
read_items_skipping_invalid(items) ==
    IF items = <<>> THEN Ok([param_types |-> <<>>, param_names |-> <<>>])
    ELSE LET items2 == split(trim(items[1]), " ")
             rest == read_items_skipping_invalid(SubSeq(items, 2, Len(items)))
         IN IF Len(items2) /= 2 THEN rest
            ELSE IF Reader_read(trim(items2[1])).kind /= "Ok" THEN Reader_read(trim(items2[1]))
            ELSE IF rest.kind /= "Ok" THEN rest
            ELSE Ok([param_types |-> << Reader_read(trim(items2[1])).value >> \o rest.value.param_types,
                     param_names |-> << trim(items2[2]) >> \o rest.value.param_names])

\* the loop of check.rs:122-136 over the schema entries, first entry first
RECURSIVE read_items(_)
read_items(items) ==
    IF items = <<>> THEN Ok([param_types |-> <<>>, param_names |-> <<>>])
    ELSE LET items2 == split(trim(items[1]), " ")
             rest == read_items(SubSeq(items, 2, Len(items)))
         IN IF Len(items2) /= 2 THEN Err(<<"Invalid item in schema", items[1]>>)
            ELSE IF Reader_read(trim(items2[1])).kind /= "Ok" THEN Reader_read(trim(items2[1]))
            ELSE IF rest.kind /= "Ok" THEN rest
            ELSE Ok([param_types |-> << Reader_read(trim(items2[1])).value >> \o rest.value.param_types,
                     param_names |-> << trim(items2[2]) >> \o rest.value.param_names])

\* ethabi::decode of the attestation data: the payload is held as the types
\* it encodes and their values, and decodes against exactly those types
ethabi_decode(param_types, data) ==
    IF data.types = param_types THEN Ok(data.values)
    ELSE Err(<<"Failed to decode attestation data">>)

\* Iterator::zip of the decoded tokens with the names (check.rs:141)
zip(tokens, names) ==
    [i \in 1..(IF Len(tokens) < Len(names) THEN Len(tokens) ELSE Len(names)) |->
        [token_name |-> names[i], token |-> tokens[i]]]

\* schema strings of an AttestationSchema: well-formed ones, and ones with an
\* entry of one or three tokens, a doubled space, an empty entry or an
\* unknown type
SchemaTexts ==
    { <<"u"," ","a",",","b"," ","c">>,
      <<"u"," ","a",","," ","b"," ","c">>,
      <<"u"," ","a">>,
      <<"u">>,
      <<"u"," ","a",",">>,
      <<"u"," "," ","a">>,
      <<>>,
      <<"u"," ","a",",","b">>,
      <<"x"," ","a">>,
      <<"b"," ","a"," ","c">>,
      <<"u"," ","a",",","x">>,
      <<"x"," ","a",",","b">>,
      <<" ","b"," ","c"," ">> }

\* check.rs:119-146: the lines printed, or the error
check_attestation_local ==
    /\ op = "check_attestation_local"
    /\ pc = "start"
    /\ LET read == read_items(split(args.schema, ","))
           decoded == ethabi_decode(read.value.param_types, args.data)
       IN returns(IF read.kind /= "Ok" THEN read
                  ELSE IF decoded.kind /= "Ok" THEN decoded
                  ELSE Ok(zip(decoded.value, read.value.param_names)))
    /\ UNCHANGED <<op, args, resps, simple_ret>>

----------------------------------------------------------------------------
(* One invocation of a single-purpose query *)

InitQueries ==
    /\ pc = "start"
    /\ calls = <<>>
    /\ resps = <<>>
    /\ locals = <<>>
    /\ simple_ret = None
    /\ result = None
    /\ op \in {"get_deposit_details", "get_attestation_details", "get_schema_details", "check_allowance",
               "check_attestation_local"}
    /\ CASE op = "get_deposit_details" ->
              args \in [deposit_id : DepositIds, lock_contract_address : {"lock"},
                        block_number : {None} \cup { Some(n) : n \in Blocks }]
         [] op = "get_attestation_details" ->
              args \in [uid : {BytesOf(32, 9)}, eas_contract_address : {"eas"}]
         [] op = "get_schema_details" ->
              args \in [uid : {BytesOf(32, 3)}, eas_schema_contract_address : {"schemas"}]
         [] op = "check_allowance" ->
              args \in [owner : {"addr"}, token : {"token"}, spender : {"lock"}]
         [] op = "check_attestation_local" ->
              args \in [schema : SchemaTexts,
                        data : { [types |-> t, values |-> [i \in 1..Len(t) |-> 40 + i]] :
                                   t \in SeqsUpTo({<<"u">>, <<"b">>}, 2) }]

NextQueries ==
    \/ get_deposit_details
    \/ deposit_eth_block_number_returns
    \/ get_deposit_returns
    \/ get_attestation_details
    \/ get_attestation_returns
    \/ get_schema_details
    \/ get_schema_returns
    \/ check_allowance
    \/ check_allowance_returns
    \/ check_attestation_local

SpecQueries == InitQueries /\ [][NextQueries]_vars

----------------------------------------------------------------------------
(* test_balance_loop (account_balance.rs:26-76) *)

\* the largest debug_loop drawn
MaxLoops == 3
\* the balance queries of one run: the guard that keeps an endless loop finite
MaxQueries == 6

\* u64::MAX is beyond the integers of the model checker; the largest of them
\* stands for it, far above any job number a run of MaxQueries queries reaches
u64_MAX == (2^30 - 1) + 2^30

\* account_balance.rs:34-37
number_of_loops(debug_loop) ==
    LET n == IF IsSome(debug_loop) THEN Unwrap(debug_loop) ELSE 1
    IN IF n = 0 THEN u64_MAX ELSE n

\* account_balance.rs:58-60: the fixed 24 digits, then format!("{:#018x}") of
\* the job number with its 0x removed, parsed as an address
job_address(job_no) ==
    Address_from_str(<<"0","x","2">> \o [i \in 1..23 |-> "0"]
                     \o strip_0x(<<"0","x">> \o lower_hex(to_be_bytes(<<0, 0, 0, job_no>>))))

next_job_no_counting_failures(job_no, balance) == job_no + 1

\* account_balance.rs:62-73: a failed query continues the loop before job_no += 1
next_job_no(job_no, balance) == IF balance.kind = "Ok" THEN job_no + 1 ELSE job_no

InitBalanceLoop ==
    /\ op = "test_balance_loop"
    /\ pc = "loop"
    /\ args \in [debug_loop : {None} \cup { Some(n) : n \in 0..MaxLoops }]
    /\ calls = <<>>
    /\ resps = <<>>
    /\ locals = [number_of_loops |-> number_of_loops(args.debug_loop), job_no |-> 0]
    /\ simple_ret = None
    /\ result = None

\* the head of the loop up to the balance query (account_balance.rs:41-62)
balance_loop_head ==
    /\ op = "test_balance_loop"
    /\ pc = "loop"
    /\ IF locals.job_no >= locals.number_of_loops
       THEN /\ pc' = "done"
            /\ result' = Some(Ok(<<>>))
            /\ calls' = calls
       ELSE IF job_address(locals.job_no).kind /= "Ok"
       THEN /\ pc' = "done"
            /\ result' = Some(job_address(locals.job_no))
            /\ calls' = calls
       ELSE /\ Len(calls) < MaxQueries
            /\ pc' = "eth_balance"
            /\ result' = result
            /\ calls' = Append(calls, job_address(locals.job_no).value)
    /\ UNCHANGED <<op, args, resps, locals, simple_ret>>

\* the answer of eth_balance and the rest of the iteration
\* (account_balance.rs:62-73)
balance_loop_eth_balance_returns ==
    /\ op = "test_balance_loop"
    /\ pc = "eth_balance"
    /\ \E balance \in {Ok(0), Err(<<"rpc">>)} :
          /\ resps' = Append(resps, balance)
          /\ locals' = [locals EXCEPT !.job_no = next_job_no(locals.job_no, balance)]
    /\ pc' = "loop"
    /\ UNCHANGED <<op, args, calls, simple_ret, result>>

NextBalanceLoop ==
    \/ balance_loop_head
    \/ balance_loop_eth_balance_returns

SpecBalanceLoop == InitBalanceLoop /\ [][NextBalanceLoop]_vars

----------------------------------------------------------------------------
(* The key-queue server (web3_account_server/src/main.rs) *)

\* the requests one run of the server receives
MaxRequests == 2

\* a private key: 64 hexadecimal digits, all zero but the last
Key(c) == [i \in 1..64 |-> IF i = 64 THEN c ELSE "0"]

\* bodies of /add: the key ...0a as 0x...0A, the key ...0b, no hexadecimal
\* text, and one byte only
Items == { <<"0","x">> \o Key("A"), Key("b"), <<"z","z">>, <<"0","x","a","b">> }

\* the queue file: absent, not a JSON array of strings, or the array
Absent == [kind |-> "absent"]
Garbage == [kind |-> "garbage"]
Json(items) == [kind |-> "json", items |-> items]
Files == { Absent, Garbage, Json(<<>>), Json(<<Key("a")>>), Json(<<Key("b"), Key("a")>>),
           Json(<<Key("a"), Key("a")>>) }

\* read_results (main.rs:12-19): an absent or unparsable file reads as empty
read_results(file) == IF file.kind = "json" THEN file.items ELSE <<>>

\* str::replace("0x", ""): every occurrence is removed
RECURSIVE replace_0x(_)
replace_0x(item) ==
    IF ~contains(item, <<"0","x">>) THEN item
    ELSE IF SubSeq(item, 1, 2) = <<"0","x">> THEN replace_0x(SubSeq(item, 3, Len(item)))
    ELSE <<item[1]>> \o replace_0x(SubSeq(item, 2, Len(item)))

\* hex::decode: an even number of hexadecimal digits, either case
hex_decode(data) ==
    IF Len(data) % 2 /= 0 THEN Err(<<"OddLength">>)
    ELSE IF \E i \in 1..Len(data) : ~IsDigit(HexDigits, to_lowercase(<<data[i]>>)[1])
    THEN Err(<<"InvalidHexCharacter">>)
    ELSE Ok(hex_bytes(data, Len(data) \div 2))

\* an answer of the server
HttpResponse(status, body) == [status |-> status, body |-> body]

\* the checks of add_to_queue before add is called (main.rs:88-93): the key
\* to add, or the answer
private_key(item) ==
    LET decoded == hex_decode(replace_0x(item)) IN
    IF decoded.kind /= "Ok" THEN Err(HttpResponse("BadRequest", "Invalid item type"))
    ELSE IF Len(decoded.value) /= 32 THEN Err(HttpResponse("BadRequest", "Invalid item length"))
    ELSE Ok(lower_hex(decoded.value))

add_without_lookup(results, item, file, opened) ==
    IF ~opened THEN [ret |-> Err(<<"io">>), file |-> file]
    ELSE [ret |-> Ok(TRUE), file |-> Json(Append(results, item))]

\* add (main.rs:21-36) on the results read: what it returns and the file it
\* leaves; `opened` tells whether the file could be opened for writing
add(results, item, file, opened) ==
    IF InSeq(item, results) THEN [ret |-> Ok(FALSE), file |-> file]
    ELSE IF ~opened THEN [ret |-> Err(<<"io">>), file |-> file]
    ELSE [ret |-> Ok(TRUE), file |-> Json(Append(results, item))]

\* get (main.rs:38-54) on the results read
get_first(results, file, opened) ==
    IF results = <<>> THEN [ret |-> Ok(None), file |-> file]
    ELSE IF ~opened THEN [ret |-> Err(<<"io">>), file |-> file]
    ELSE [ret |-> Ok(Some(results[1])), file |-> Json(SubSeq(results, 2, Len(results)))]

\* the answer of add_to_queue (main.rs:94-101) and of get_from_queue
\* (main.rs:113-120)
add_response(ret) ==
    IF ret.kind /= "Ok" THEN HttpResponse("InternalServerError", "")
    ELSE IF ret.value THEN HttpResponse("Ok", "Added to the queue")
    ELSE HttpResponse("Ok", "Item already in the queue")
get_response(ret) ==
    IF ret.kind /= "Ok" THEN HttpResponse("InternalServerError", "")
    ELSE IF IsSome(ret.value) THEN HttpResponse("Ok", Unwrap(ret.value))
    ELSE HttpResponse("BadRequest", "Queue is empty")

lock_never_held(lock) == TRUE

\* data.lock.lock().await completes when no handler holds the mutex
lock_is_free(lock) == lock = None

InitKeyQueue ==
    /\ op = "web3_account_server"
    /\ pc = "serving"
    /\ args \in [file : Files]
    /\ calls = <<>>
    /\ resps = <<>>
    /\ locals = [file |-> args.file, lock |-> None, handlers |-> <<>>]
    /\ simple_ret = None
    /\ result = None

\* handler r moves to `to`, keeping the results it read (and, in
\* add_to_queue, the item it passes to add); a handler that returns drops its
\* guard and answers
Moved(r, to, results) == [locals.handlers EXCEPT ![r].pc = to, ![r].results = results]
Answers(r, response, results, file) ==
    /\ resps' = Append(resps, [request |-> r, response |-> response, results |-> results,
                               file |-> file])
    /\ locals' = [file |-> file, lock |-> None, handlers |-> Moved(r, "done", results)]

\* a request reaches its handler (main.rs:229-231)
key_queue_request ==
    /\ op = "web3_account_server"
    /\ Len(calls) < MaxRequests
    /\ \E request \in [handler : {"add_to_queue"}, item : Items]
                       \cup [handler : {"get_from_queue", "count"}, item : {<<>>}] :
          calls' = Append(calls, request)
    /\ locals' = [locals EXCEPT !.handlers = Append(@, [pc |-> "lock", item |-> <<>>, results |-> <<>>])]
    /\ UNCHANGED <<op, pc, args, resps, simple_ret, result>>

\* let _lock = data.lock.lock().await (main.rs:87, 105, 112)
key_queue_lock ==
    /\ op = "web3_account_server"
    /\ \E r \in 1..Len(calls) :
          /\ locals.handlers[r].pc = "lock"
          /\ lock_is_free(locals.lock)
          /\ locals' = [locals EXCEPT !.lock = Some(r), !.handlers = Moved(r, "locked", <<>>)]
    /\ UNCHANGED <<op, pc, args, calls, resps, simple_ret, result>>

\* add_to_queue up to read_results in add (main.rs:88-93, 22)
add_to_queue ==
    /\ op = "web3_account_server"
    /\ \E r \in 1..Len(calls) :
          /\ locals.handlers[r].pc = "locked"
          /\ calls[r].handler = "add_to_queue"
          /\ LET item == private_key(calls[r].item) IN
             IF item.kind /= "Ok"
             THEN Answers(r, item.msg, <<>>, locals.file)
             ELSE /\ locals' = [locals EXCEPT
                                   !.handlers = [@ EXCEPT ![r] = [pc |-> "read", item |-> item.value,
                                                                  results |-> read_results(locals.file)]]]
                  /\ resps' = resps
    /\ UNCHANGED <<op, pc, args, calls, simple_ret, result>>

\* the rest of add and the answer of add_to_queue (main.rs:23-35, 94-101)
add_to_queue_add ==
    /\ op = "web3_account_server"
    /\ \E r \in 1..Len(calls), opened \in BOOLEAN :
          /\ locals.handlers[r].pc = "read"
          /\ calls[r].handler = "add_to_queue"
          /\ LET a == add(locals.handlers[r].results, locals.handlers[r].item,
                          locals.file, opened) IN
             Answers(r, add_response(a.ret), locals.handlers[r].results, a.file)
    /\ UNCHANGED <<op, pc, args, calls, simple_ret, result>>

\* get_from_queue up to read_results in get (main.rs:112, 39)
get_from_queue ==
    /\ op = "web3_account_server"
    /\ \E r \in 1..Len(calls) :
          /\ locals.handlers[r].pc = "locked"
          /\ calls[r].handler = "get_from_queue"
          /\ locals' = [locals EXCEPT !.handlers = Moved(r, "read", read_results(locals.file))]
    /\ UNCHANGED <<op, pc, args, calls, resps, simple_ret, result>>

\* the rest of get and the answer of get_from_queue (main.rs:40-53, 113-120)
get_from_queue_get ==
    /\ op = "web3_account_server"
    /\ \E r \in 1..Len(calls), opened \in BOOLEAN :
          /\ locals.handlers[r].pc = "read"
          /\ calls[r].handler = "get_from_queue"
          /\ LET g == get_first(locals.handlers[r].results, locals.file, opened) IN
             Answers(r, get_response(g.ret), locals.handlers[r].results, g.file)
    /\ UNCHANGED <<op, pc, args, calls, simple_ret, result>>

\* count (main.rs:104-109)
count ==
    /\ op = "web3_account_server"
    /\ \E r \in 1..Len(calls) :
          /\ locals.handlers[r].pc = "locked"
          /\ calls[r].handler = "count"
          /\ Answers(r, HttpResponse("Ok", Len(read_results(locals.file))),
                     read_results(locals.file), locals.file)
    /\ UNCHANGED <<op, pc, args, calls, simple_ret, result>>

NextKeyQueue ==
    \/ key_queue_request
    \/ key_queue_lock
    \/ add_to_queue
    \/ add_to_queue_add
    \/ get_from_queue
    \/ get_from_queue_get
    \/ count

SpecKeyQueue == InitKeyQueue /\ [][NextKeyQueue]_vars

----------------------------------------------------------------------------
(* The offer server (yagna_offer_server/src)                               *)

\* requests one run of the server handles
MaxOfferRequests == 2

\* a BTreeMap<String, _> is a function on its keys, walked in key order
KeyOrder == <<"d1", "d2", "d3", "n1", "n2", "o1", "o2">>
Keys(map) == SelectSeq(KeyOrder, LAMBDA k : k \in DOMAIN map)
EmptyMap == [k \in {} |-> None]
insert(map, key, value) == [k \in DOMAIN map \cup {key} |-> IF k = key THEN value ELSE map[k]]
retain(map, kept) == [k \in kept |-> map[k]]

\* the minutes clean_old_offers keeps an expired offer
RetentionMinutes == 60

\* two offers of one provider, the second one newer and longer lived
GolemBaseOffer(id, timestamp, expiration) ==
    [id |-> id, provider_id |-> "p1", timestamp |-> timestamp, expiration |-> expiration]
OfferO1 == GolemBaseOffer("o1", 1, 1)
OfferO2 == GolemBaseOffer("o2", 2, 100)
OfferObj(offer, available) == [offer |-> offer, available |-> available]
Demand(id, node_id) == [id |-> id, node_id |-> node_id]
DemandObj(demand, offer_list) == [demand |-> demand, offer_list |-> offer_list]

\* a request body serde_json cannot decode, and the decoded body of a request
\* that carries none
Undecodable == Err(<<"undecodable">>)
Unit == [unit |-> TRUE]

\* the body of an answer: .body(text), .body(format!(text, id)), .json(value)
body(text) == [text |-> text]
format(text, id) == [text |-> text, id |-> id]
json(value) == [json |-> value]

\* NodeId::from_str: only the text of a node id parses
NodeIds == {"n1", "n2"}
NodeId_from_str(s) == IF s \in NodeIds THEN Ok(s) ELSE Err(<<"invalid node id">>)

\* the requests: handler and decoded body (or path argument)
OfferRequests ==
    [handler : {"push_offer"}, item : {Ok(OfferO1), Undecodable}]
    \cup [handler : {"get_if_available", "delete_all_offers"}, item : {Ok(Unit)}]
    \cup [handler : {"clean_old_offers"}, item : {Ok([now |-> RetentionMinutes + 1])}]
    \cup [handler : {"download_offers_from_mirror"},
          item : {Ok([offers |-> <<>>]), Ok([offers |-> <<OfferObj(OfferO2, TRUE)>>])}]
    \cup [handler : {"demand_new"},
          item : {Ok(Demand("d3", "n1")), Ok(Demand("d1", "n1")), Undecodable}]
    \cup [handler : {"demand_cancel"}, item : {Ok([demand_id |-> "d1"]), Undecodable}]
    \cup [handler : {"add_offer_to_demand"},
          item : {Ok([demand_id |-> "d1", offer_id |-> "o1"]),
                  Ok([demand_id |-> "n1", offer_id |-> "o1"]),
                  Ok([demand_id |-> "d2", offer_id |-> "o1"]),
                  Ok([demand_id |-> "d1", offer_id |-> "o2"]), Undecodable}]
    \cup [handler : {"take_offer_from_queue"}, item : {Ok([demand_id |-> "d1"]), Ok([demand_id |-> "n1"]),
                  Ok([demand_id |-> "d3"])}]

\* one decodable request of every handler
OneOfEach ==
    { request \in OfferRequests :
         /\ request.item.kind = "Ok"
         /\ request.handler = "demand_new" => request.item.value.id = "d3"
         /\ request.handler = "download_offers_from_mirror" => request.item.value.offers /= <<>>
         /\ request.handler \in {"add_offer_to_demand", "take_offer_from_queue"}
                => request.item.value.demand_id = "d1"
         /\ request.handler = "add_offer_to_demand" => request.item.value.offer_id = "o1" }

RequestsOf(requests) == IF requests = "OneOfEach" THEN OneOfEach ELSE OfferRequests

\* states of the two maps the server reaches: as constructed; after
\* push_offer o1 and demand_new d1, d2; after add_offer_to_demand d1 o1 on top
ServerStates ==
    LET demand_map(offer_list) ==
            insert(insert(EmptyMap, "d1", DemandObj(Demand("d1", "n1"), offer_list)),
                   "d2", DemandObj(Demand("d2", "n2"), <<>>)) IN
    { [offer_map |-> EmptyMap, demand_map |-> EmptyMap],
      [offer_map |-> insert(EmptyMap, "o1", OfferObj(OfferO1, TRUE)),
       demand_map |-> demand_map(<<>>)],
      [offer_map |-> insert(EmptyMap, "o1", OfferObj(OfferO1, FALSE)),
       demand_map |-> demand_map(<<"o1">>)] }

\* the mutexes a handler acquires, in the order it awaits them (main.rs:262,
\* 314; clean_old_offers.rs:6, 14; offers.rs:48; demand.rs:27, 46, 64-65, 123-124)
locks_offers_first(handler) ==
    IF handler \in {"demand_new", "demand_cancel"} THEN <<"demands">>
    ELSE IF handler = "take_offer_from_queue" THEN <<"demands", "lock">>
    ELSE IF handler = "add_offer_to_demand" THEN <<"lock", "demands">>
    ELSE <<"lock">>
locks(handler) ==
    IF handler \in {"demand_new", "demand_cancel"} THEN <<"demands">>
    ELSE IF handler \in {"take_offer_from_queue", "add_offer_to_demand"} THEN <<"demands", "lock">>
    ELSE <<"lock">>

\* a request that returns before it awaits a mutex: an undecodable body
\* (main.rs:306-313, demand.rs:17-25, 36-45, 112-119) or an empty download
\* (offers.rs:43-46)
returns_early(request) ==
    IF request.handler = "download_offers_from_mirror" THEN request.item.value.offers = <<>>
    ELSE request.item.kind /= "Ok"

\* push_offer under the lock (main.rs:315-328)
push(offer_map, offer) ==
    IF offer.id \in DOMAIN offer_map
    THEN [offer_map |-> offer_map,
          response |-> HttpResponse("Ok", format("Offer already registered", offer.id))]
    ELSE [offer_map |-> insert(offer_map, offer.id, OfferObj(offer, TRUE)),
          response |-> HttpResponse("Ok", body("Offer added to the queue"))]

\* get_if_available under the lock (main.rs:263-270): the first available
\* offer in key order
take_keeps_available(offer_map) ==
    LET available == SelectSeq(Keys(offer_map), LAMBDA k : offer_map[k].available) IN
    IF available = <<>>
    THEN [offer_map |-> offer_map, response |-> HttpResponse("Ok", body("No available offers"))]
    ELSE [offer_map |-> offer_map,
          response |-> HttpResponse("Ok", json(offer_map[available[1]].offer))]
take(offer_map) ==
    LET available == SelectSeq(Keys(offer_map), LAMBDA k : offer_map[k].available) IN
    IF available = <<>>
    THEN [offer_map |-> offer_map, response |-> HttpResponse("Ok", body("No available offers"))]
    ELSE [offer_map |-> [offer_map EXCEPT ![available[1]].available = FALSE],
          response |-> HttpResponse("Ok", json(offer_map[available[1]].offer))]

\* clean_old_offers under the lock (clean_old_offers.rs:7-10)
clean(offer_map, now) ==
    retain(offer_map, {k \in DOMAIN offer_map :
                          offer_map[k].offer.expiration > now - RetentionMinutes})

\* the loops of download_offers_from_mirror (offers.rs:51-97): by_provider_id
\* maps a provider to its offer, the last one in key order for the offers the
\* map held
RECURSIVE existing_by_provider(_, _)
existing_by_provider(offer_map, keys) ==
    IF keys = <<>> THEN EmptyMap
    ELSE insert(existing_by_provider(offer_map, SubSeq(keys, 1, Len(keys) - 1)),
                offer_map[keys[Len(keys)]].offer.provider_id, offer_map[keys[Len(keys)]])
RECURSIVE insert_downloaded(_, _, _)
insert_downloaded(offer_map, by_provider_id, offers) ==
    IF offers = <<>> THEN offer_map
    ELSE LET offer == offers[1]
             rest == SubSeq(offers, 2, Len(offers))
             provider == offer.offer.provider_id IN
         IF offer.offer.id \in DOMAIN offer_map
         THEN insert_downloaded(offer_map, by_provider_id, rest)
         ELSE IF provider \in DOMAIN by_provider_id
         THEN IF by_provider_id[provider].offer.timestamp < offer.offer.timestamp
              THEN insert_downloaded(
                       insert(retain(offer_map,
                                     DOMAIN offer_map \ {by_provider_id[provider].offer.id}),
                              offer.offer.id, offer),
                       insert(by_provider_id, provider, offer), rest)
              ELSE insert_downloaded(offer_map, by_provider_id, rest)
         ELSE insert_downloaded(insert(offer_map, offer.offer.id, offer),
                                insert(by_provider_id, provider, offer), rest)
download(offer_map, offers) ==
    insert_downloaded(offer_map, existing_by_provider(offer_map, Keys(offer_map)), offers)

\* demand_new under the lock (demand.rs:48-60)
new_keeps_same_node(demand_map, demand) ==
    IF demand.id \in DOMAIN demand_map
    THEN [demand_map |-> demand_map,
          response |-> HttpResponse("Conflict", body("Demand with the same id already exists"))]
    ELSE [demand_map |-> insert(demand_map, demand.id, DemandObj(demand, <<>>)),
          response |-> HttpResponse("Ok", json(demand))]
new(demand_map, demand) ==
    IF demand.id \in DOMAIN demand_map
    THEN [demand_map |-> demand_map,
          response |-> HttpResponse("Conflict", body("Demand with the same id already exists"))]
    ELSE [demand_map |->
              insert(retain(demand_map, {k \in DOMAIN demand_map :
                                            demand_map[k].demand.node_id /= demand.node_id}),
                     demand.id, DemandObj(demand, <<>>)),
          response |-> HttpResponse("Ok", json(demand))]

\* demand_cancel under the lock (demand.rs:28-32)
cancel(demand_map, demand_id) ==
    IF demand_id \in DOMAIN demand_map
    THEN [demand_map |-> retain(demand_map, DOMAIN demand_map \ {demand_id}),
          response |-> HttpResponse("Ok", body("Demand cancelled successfully"))]
    ELSE [demand_map |-> demand_map, response |-> HttpResponse("NotFound", body("Demand not found"))]

\* the demand a request names (demand.rs:67-85, 135-153): by its id, else the
\* first demand in key order of the node the text names
get_demand(demand_map, demand_id) ==
    IF demand_id \in DOMAIN demand_map THEN Ok(Some(demand_id))
    ELSE LET node_id == NodeId_from_str(demand_id) IN
         IF node_id.kind /= "Ok"
         THEN Err(HttpResponse("BadRequest", body("Invalid offer ID format or not found")))
         ELSE LET found == SelectSeq(Keys(demand_map),
                                     LAMBDA k : demand_map[k].demand.node_id = node_id.value) IN
              IF found = <<>> THEN Ok(None) ELSE Ok(Some(found[1]))

\* take_offer_from_queue under both locks (demand.rs:67-101)
take_from_queue(offer_map, demand_map, demand_id) ==
    LET demand == get_demand(demand_map, demand_id) IN
    IF demand.kind /= "Ok" THEN [demand_map |-> demand_map, response |-> demand.msg]
    ELSE IF demand.value = None
    THEN [demand_map |-> demand_map, response |-> HttpResponse("NotFound", body("Demand not found"))]
    ELSE LET key == Unwrap(demand.value)
             offer_list == demand_map[key].offer_list IN
         IF offer_list = <<>>
         THEN [demand_map |-> demand_map,
               response |-> HttpResponse("NotFound", body("No offers available in the demand queue"))]
         ELSE [demand_map |-> [demand_map EXCEPT ![key].offer_list = Tail(offer_list)],
               response |-> IF offer_list[1] \in DOMAIN offer_map
                            THEN HttpResponse("Ok", json(offer_map[offer_list[1]]))
                            ELSE HttpResponse("NotFound", body("Offer not found"))]

\* add_offer_to_demand under both locks (demand.rs:126-166)
add_to_demand_unchecked(offer_map, demand_map, demand_id, offer_id) ==
    LET unchanged(response) ==
            [offer_map |-> offer_map, demand_map |-> demand_map, response |-> response] IN
    IF offer_id \notin DOMAIN offer_map
    THEN unchanged(HttpResponse("NotFound", body("Offer not found")))
    ELSE LET demand == get_demand(demand_map, demand_id) IN
         IF demand.kind /= "Ok" THEN unchanged(demand.msg)
         ELSE IF demand.value = None
         THEN unchanged(HttpResponse("NotFound", body("Demand not found")))
         ELSE [offer_map |-> [offer_map EXCEPT ![offer_id].available = FALSE],
               demand_map |-> [demand_map EXCEPT ![Unwrap(demand.value)].offer_list =
                                                     Append(@, offer_map[offer_id].offer.id)],
               response |-> HttpResponse("Ok", body("Offer added to demand successfully"))]
add_to_demand(offer_map, demand_map, demand_id, offer_id) ==
    LET unchanged(response) ==
            [offer_map |-> offer_map, demand_map |-> demand_map, response |-> response] IN
    IF offer_id \notin DOMAIN offer_map
    THEN unchanged(HttpResponse("NotFound", body("Offer not found")))
    ELSE LET demand == get_demand(demand_map, demand_id) IN
         IF demand.kind /= "Ok" THEN unchanged(demand.msg)
         ELSE IF demand.value = None
         THEN unchanged(HttpResponse("NotFound", body("Demand not found")))
         ELSE IF ~offer_map[offer_id].available
         THEN unchanged(HttpResponse("Conflict", body("Offer is not available")))
         ELSE [offer_map |-> [offer_map EXCEPT ![offer_id].available = FALSE],
               demand_map |-> [demand_map EXCEPT ![Unwrap(demand.value)].offer_list =
                                                     Append(@, offer_map[offer_id].offer.id)],
               response |-> HttpResponse("Ok", body("Offer added to demand successfully"))]

\* AppState (state.rs:33-37) in one of the states the maps reach; no request
\* has arrived and both mutexes are free. args.requests names the requests
\* that will arrive
InitOfferServerWith(requests) ==
    /\ op = "yagna_offer_server"
    /\ pc = "serving"
    /\ args \in [offer_map : {s.offer_map : s \in ServerStates},
                  demand_map : {s.demand_map : s \in ServerStates},
                  requests : {requests}]
    /\ [offer_map |-> args.offer_map, demand_map |-> args.demand_map] \in ServerStates
    /\ calls = <<>>
    /\ resps = <<>>
    /\ locals = [offer_map |-> args.offer_map, demand_map |-> args.demand_map,
                 mutex |-> [lock |-> None, demands |-> None], handlers |-> <<>>]
    /\ simple_ret = None
    /\ result = None
InitOfferServer == InitOfferServerWith("OfferRequests")
InitOfferServerFair == InitOfferServerWith("OneOfEach")

\* the mutexes handler r holds, and the next one it awaits
Held(r) == SubSeq(locks(calls[r].handler), 1, locals.handlers[r].held)
Awaited(r) == locks(calls[r].handler)[locals.handlers[r].held + 1]
HoldsAll(r) == locals.handlers[r].held = Len(locks(calls[r].handler))

\* handler r is at its body: it returns before any lock, or holds all of them
AtBody(r, handler) ==
    /\ calls[r].handler = handler
    /\ locals.handlers[r].pc = "running"
    /\ IF returns_early(calls[r]) THEN locals.handlers[r].held = 0 ELSE HoldsAll(r)

\* handler r answers: the maps become what its body made of them, the guards
\* it holds are dropped
Returns(r, response, offer_map, demand_map) ==
    /\ resps' = Append(resps, [request |-> r, response |-> response,
                               before |-> [offer_map |-> locals.offer_map,
                                           demand_map |-> locals.demand_map],
                               after |-> [offer_map |-> offer_map, demand_map |-> demand_map]])
    /\ locals' = [offer_map |-> offer_map, demand_map |-> demand_map,
                  mutex |-> [m \in DOMAIN locals.mutex |->
                                IF locals.mutex[m] = Some(r) THEN None ELSE locals.mutex[m]],
                  handlers |-> [locals.handlers EXCEPT ![r].pc = "done", ![r].held = 0]]
    /\ UNCHANGED <<op, pc, args, calls, simple_ret, result>>

\* a request reaches its handler, or the ticker of
\* clean_old_offers_periodically fires (main.rs:339-349)
offer_request ==
    /\ op = "yagna_offer_server"
    /\ Len(calls) < MaxOfferRequests
    /\ \E request \in RequestsOf(args.requests) : calls' = Append(calls, request)
    /\ locals' = [locals EXCEPT !.handlers = Append(@, [pc |-> "running", held |-> 0])]
    /\ UNCHANGED <<op, pc, args, resps, simple_ret, result>>

\* lock().await on the next mutex of a handler: granted when the mutex is free
offer_server_lock ==
    /\ op = "yagna_offer_server"
    /\ \E r \in 1..Len(calls) :
          /\ locals.handlers[r].pc = "running"
          /\ ~returns_early(calls[r])
          /\ ~HoldsAll(r)
          /\ locals.mutex[Awaited(r)] = None
          /\ locals' = [locals EXCEPT !.mutex[Awaited(r)] = Some(r), !.handlers[r].held = @ + 1]
    /\ UNCHANGED <<op, pc, args, calls, resps, simple_ret, result>>

\* push_offer (main.rs:305-329)
push_offer ==
    /\ op = "yagna_offer_server"
    /\ \E r \in 1..Len(calls) :
          /\ AtBody(r, "push_offer")
          /\ IF returns_early(calls[r])
             THEN Returns(r, HttpResponse("BadRequest", body("Invalid offer format")),
                          locals.offer_map, locals.demand_map)
             ELSE LET p == push(locals.offer_map, calls[r].item.value) IN
                  Returns(r, p.response, p.offer_map, locals.demand_map)

\* get_if_available (main.rs:261-271)
get_if_available ==
    /\ op = "yagna_offer_server"
    /\ \E r \in 1..Len(calls) :
          /\ AtBody(r, "get_if_available")
          /\ LET t == take(locals.offer_map) IN
             Returns(r, t.response, t.offer_map, locals.demand_map)

\* clean_old_offers (clean_old_offers.rs:5-11); it answers nobody
clean_old_offers ==
    /\ op = "yagna_offer_server"
    /\ \E r \in 1..Len(calls) :
          /\ AtBody(r, "clean_old_offers")
          /\ Returns(r, Unit, clean(locals.offer_map, calls[r].item.value.now), locals.demand_map)

\* delete_all_offers (clean_old_offers.rs:13-17)
delete_all_offers ==
    /\ op = "yagna_offer_server"
    /\ \E r \in 1..Len(calls) :
          /\ AtBody(r, "delete_all_offers")
          /\ Returns(r, HttpResponse("Ok", body("All offers deleted successfully")),
                     EmptyMap, locals.demand_map)

\* download_offers_from_mirror once the offers are parsed (offers.rs:43-118)
download_offers_from_mirror ==
    /\ op = "yagna_offer_server"
    /\ \E r \in 1..Len(calls) :
          /\ AtBody(r, "download_offers_from_mirror")
          /\ IF returns_early(calls[r])
             THEN Returns(r, Ok(Unit), locals.offer_map, locals.demand_map)
             ELSE Returns(r, Ok(Unit), download(locals.offer_map, calls[r].item.value.offers),
                          locals.demand_map)

\* demand_new (demand.rs:35-61)
demand_new ==
    /\ op = "yagna_offer_server"
    /\ \E r \in 1..Len(calls) :
          /\ AtBody(r, "demand_new")
          /\ IF returns_early(calls[r])
             THEN Returns(r, HttpResponse("BadRequest", body("Invalid filter format")),
                          locals.offer_map, locals.demand_map)
             ELSE LET n == new(locals.demand_map, calls[r].item.value) IN
                  Returns(r, n.response, locals.offer_map, n.demand_map)

\* demand_cancel (demand.rs:16-33)
demand_cancel ==
    /\ op = "yagna_offer_server"
    /\ \E r \in 1..Len(calls) :
          /\ AtBody(r, "demand_cancel")
          /\ IF returns_early(calls[r])
             THEN Returns(r, HttpResponse("BadRequest", body("Invalid cancellation format")),
                          locals.offer_map, locals.demand_map)
             ELSE LET c == cancel(locals.demand_map, calls[r].item.value.demand_id) IN
                  Returns(r, c.response, locals.offer_map, c.demand_map)

\* take_offer_from_queue (demand.rs:63-102)
take_offer_from_queue ==
    /\ op = "yagna_offer_server"
    /\ \E r \in 1..Len(calls) :
          /\ AtBody(r, "take_offer_from_queue")
          /\ LET t == take_from_queue(locals.offer_map, locals.demand_map,
                                       calls[r].item.value.demand_id) IN
             Returns(r, t.response, locals.offer_map, t.demand_map)

\* add_offer_to_demand (demand.rs:111-167)
add_offer_to_demand ==
    /\ op = "yagna_offer_server"
    /\ \E r \in 1..Len(calls) :
          /\ AtBody(r, "add_offer_to_demand")
          /\ IF returns_early(calls[r])
             THEN Returns(r, HttpResponse("BadRequest", body("Invalid format")),
                          locals.offer_map, locals.demand_map)
             ELSE LET a == add_to_demand(locals.offer_map, locals.demand_map,
                                         calls[r].item.value.demand_id,
                                         calls[r].item.value.offer_id) IN
                  Returns(r, a.response, a.offer_map, a.demand_map)

\* the steps of the handlers, apart from the arrival of requests
OfferServerStep ==
    \/ offer_server_lock
    \/ push_offer
    \/ get_if_available
    \/ clean_old_offers
    \/ delete_all_offers
    \/ download_offers_from_mirror
    \/ demand_new
    \/ demand_cancel
    \/ take_offer_from_queue
    \/ add_offer_to_demand

NextOfferServer ==
    \/ offer_request
    \/ offer_server_lock
    \/ push_offer
    \/ get_if_available
    \/ clean_old_offers
    \/ delete_all_offers
    \/ download_offers_from_mirror
    \/ demand_new
    \/ demand_cancel
    \/ take_offer_from_queue
    \/ add_offer_to_demand

SpecOfferServer == InitOfferServer /\ [][NextOfferServer]_vars

\* the runtime keeps polling a handler that can run and the tokio mutex hands
\* itself to its waiters in turn: while some handler can take a step, one does
SpecOfferServerFair ==
    InitOfferServerFair /\ [][NextOfferServer]_vars /\ WF_vars(OfferServerStep)

----------------------------------------------------------------------------
(* One invocation of any operation *)

Init ==
    InitGetBalance \/ InitValidateDeposit \/ InitDepositId \/ InitQueries \/ InitBalanceLoop
        \/ InitKeyQueue \/ InitOfferServer
Next ==
    NextGetBalance \/ NextValidateDeposit \/ NextDepositId \/ NextQueries \/ NextBalanceLoop
        \/ NextKeyQueue \/ NextOfferServer
Spec == Init /\ [][Next]_vars

----------------------------------------------------------------------------
(* Properties of get_balance *)

\* the invocation has returned r
Returned == pc = "done" /\ IsSome(result)

\* the atomic path was taken: both addresses were supplied
AtomicPath ==
    /\ op = "get_balance"
    /\ IsSome(args.token_address)
    /\ IsSome(args.call_with_details)

IsWrapperCall(c) == c.method = "eth_call" /\ c.data.name = "callWithDetails"
IsFallbackCall(c) ==
    IF c.method = "eth_call" THEN c.data.name = "balanceOf" ELSE c.method \in {"eth_block", "eth_balance"}

\* the wrapper eth_call was answered with an error whose lower-cased text
\* contains (sig = TRUE) or does not contain (sig = FALSE) "insufficient funds"
WrapperFailed(sig) ==
    /\ AtomicPath
    /\ Len(resps) >= 1
    /\ ~resps[1].ok
    /\ contains(to_lowercase(resps[1].err), InsufficientFunds) = sig

\* C1: when the wrapper eth_call of the atomic path fails with an error whose
\* lower-cased text contains "insufficient funds", get_balance_simple is run
\* (its first call, eth_block, follows the wrapper call) and what it returns,
\* Ok or Err, is what get_balance returns.
C1_FallbackOnInsufficientFunds ==
    WrapperFailed(TRUE) =>
        /\ Len(calls) >= 2
        /\ calls[2] = simple_block_call(args)
        /\ pc = "done" => (IsSome(simple_ret) /\ result = simple_ret)

C1_Witness ==
    /\ WrapperFailed(TRUE)
    /\ ~contains(resps[1].err, InsufficientFunds)
    /\ Returned
    /\ Unwrap(result).kind = "Ok"
    /\ Len(calls) = 4

\* C2: when the wrapper eth_call fails with an error whose text does not
\* contain "insufficient funds", get_balance returns an error and issues no
\* further RPC call: the wrapper call is the only call of the invocation.
C2_OtherErrorIsFinal ==
    WrapperFailed(FALSE) =>
        /\ Returned
        /\ Unwrap(result).kind = "Err"
        /\ Len(calls) = 1
        /\ simple_ret = None

C2_Witness == WrapperFailed(FALSE) /\ Returned

\* C3: the wrapper callWithDetails eth_call is issued only if both
\* token_address and call_with_details are supplied; if either is absent the
\* first call of the invocation is the eth_block of the fallback path and no
\* call of the invocation is a wrapper call.
C3_WrapperOnlyWithBoth ==
    op = "get_balance" =>
        /\ (\E i \in 1..Len(calls) : IsWrapperCall(calls[i])) => AtomicPath
        /\ (~AtomicPath /\ pc /= "start") =>
              /\ calls[1] = simple_block_call(args)
              /\ \A i \in 1..Len(calls) : IsFallbackCall(calls[i])

C3_Witness ==
    /\ op = "get_balance"
    /\ IsSome(args.token_address)
    /\ ~IsSome(args.call_with_details)
    /\ Returned
    /\ Unwrap(result).kind = "Ok"

\* the wrapper call was answered, the answer decoded, and the chain id in it
\* differs from the expected chain id the caller supplied
ChainIdDiffers ==
    /\ AtomicPath
    /\ Len(resps) >= 1
    /\ resps[1].ok
    /\ decode_call_with_details(resps[1].value).kind = "Ok"
    /\ IsSome(args.chain_id)
    /\ resps[1].value.chain_id /= Unwrap(args.chain_id)

\* C4: on the atomic path, if an expected chain_id is supplied and the chain
\* id decoded from the wrapper response differs, get_balance returns an error
\* (invalid chain id); it returns no balance and does not run the fallback.
C4_ChainIdMismatchFails ==
    ChainIdDiffers =>
        /\ Returned
        /\ Unwrap(result).kind = "Err"
        /\ Unwrap(result).msg[1] = "Invalid chain id in response"
        /\ Len(calls) = 1
        /\ simple_ret = None

C4_Witness ==
    /\ ChainIdDiffers
    /\ Returned
    /\ Len(resps[1].value.call_result) = 32

\* the calls of the invocation that belong to the atomic / the fallback path
NumWrapperCalls == Cardinality({ i \in 1..Len(calls) : IsWrapperCall(calls[i]) })
NumFallbackCalls == Cardinality({ i \in 1..Len(calls) : IsFallbackCall(calls[i]) })

\* C9 as stated: the atomic path issues exactly one RPC call and the fallback
\* path at most two, for every combination of token_address and block_number.
C9_FallbackAtMostTwoCalls ==
    (op = "get_balance" /\ pc /= "start") =>
        /\ AtomicPath => NumWrapperCalls = 1
        /\ NumFallbackCalls <= 2

\* C9 amended: the atomic path issues exactly one RPC call; the fallback path
\* issues at most three (eth_block, eth_balance and, when a token address is
\* supplied, the balanceOf eth_call), at most two without a token address,
\* and a fallback that returns Ok has issued exactly that many.
C9_FallbackAtMostThreeCalls ==
    (op = "get_balance" /\ pc /= "start") =>
        /\ NumWrapperCalls = (IF AtomicPath THEN 1 ELSE 0)
        /\ NumWrapperCalls + NumFallbackCalls = Len(calls)
        /\ NumFallbackCalls <= (IF IsSome(args.token_address) THEN 3 ELSE 2)
        /\ (IsSome(simple_ret) /\ Unwrap(simple_ret).kind = "Ok") =>
              NumFallbackCalls = (IF IsSome(args.token_address) THEN 3 ELSE 2)

C9_Witness ==
    /\ WrapperFailed(TRUE)
    /\ Returned
    /\ Unwrap(result).kind = "Ok"
    /\ NumFallbackCalls = 3
    /\ ~IsSome(args.block_number)

----------------------------------------------------------------------------
(* Properties of validate_deposit_eth *)

IsSignatureCall(c) == c.method = "eth_call" /\ c.data.name = "getValidateDepositSignature"
IsValidateCall(c) == c.method = "eth_call" /\ c.data.name = "validateDeposit"
ValidateCallIssued == \E i \in 1..Len(calls) : IsValidateCall(calls[i])

\* position in `calls` of the schema fetch: it follows the eth_block_number
\* call when the caller supplied no block number
SignatureIdx == IF IsSome(args.block_number) THEN 1 ELSE 2

\* the schema fetch was answered with a string that parses as a JSON array
SchemaFetched ==
    /\ op = "validate_deposit_eth"
    /\ Len(resps) >= SignatureIdx
    /\ resps[SignatureIdx].ok
    /\ resps[SignatureIdx].value.abi = "string"
    /\ resps[SignatureIdx].value.s.doc = "json"

\* the schema fetch was answered, and the answer is an RPC error, no ABI
\* string, or no JSON array of {type, name}
SchemaFailed ==
    /\ op = "validate_deposit_eth"
    /\ Len(resps) >= SignatureIdx
    /\ ~SchemaFetched

Schema == resps[SignatureIdx].value.s.array

\* the k-th declared parameter is not "id" and the caller did not supply it
IsMissing(k) ==
    /\ Schema[k].name /= "id"
    /\ Schema[k].name \notin DOMAIN args.validate_args

\* the k-th declared parameter is supplied but is rejected for its type or value
IsRejected(k) ==
    /\ Schema[k].name /= "id"
    /\ Schema[k].name \in DOMAIN args.validate_args
    /\ \/ Schema[k].typ /= "uint128"
       \/ /\ ~(\A i \in 1..Len(args.validate_args[Schema[k].name]) :
                  IsDigit(DecDigits, args.validate_args[Schema[k].name][i]))
          /\ ~(\A i \in 1..Len(strip_0x(args.validate_args[Schema[k].name])) :
                  IsDigit(HexDigits, strip_0x(args.validate_args[Schema[k].name])[i]))

\* C5 as stated: if the fetched schema declares a parameter other than "id"
\* that the caller did not supply, the operation fails with "Missing required
\* parameter: <name>", <name> being such a parameter, and the validateDeposit
\* call is never issued.
C5_MissingParameterNamed ==
    (SchemaFetched /\ \E k \in 1..Len(Schema) : IsMissing(k)) =>
        /\ Returned
        /\ Unwrap(result).kind = "Err"
        /\ Unwrap(result).msg[1] = "Missing required parameter"
        /\ \E k \in 1..Len(Schema) : IsMissing(k) /\ Unwrap(result).msg[2] = Schema[k].name
        /\ ~ValidateCallIssued

\* C5 amended: if the fetched schema declares a parameter other than "id" that
\* the caller did not supply, the operation fails and the validateDeposit call
\* is never issued; the error is "Missing required parameter: <name>" for the
\* first such parameter, unless a parameter declared before it is supplied
\* with an unsupported type or an unparsable value, which is reported instead.
C5_MissingParameterFails ==
    (SchemaFetched /\ \E k \in 1..Len(Schema) : IsMissing(k)) =>
        LET first == CHOOSE k \in 1..Len(Schema) : IsMissing(k) /\ \A j \in 1..(k - 1) : ~IsMissing(j) IN
        /\ Returned
        /\ Unwrap(result).kind = "Err"
        /\ ~ValidateCallIssued
        /\ (\A j \in 1..(first - 1) : ~IsRejected(j)) =>
              Unwrap(result).msg = <<"Missing required parameter", Schema[first].name>>
        /\ (\E j \in 1..(first - 1) : IsRejected(j)) =>
              Unwrap(result).msg[1] \in {"Unsupported type for parameter", "Invalid value for parameter"}

C5_Witness ==
    /\ SchemaFetched
    /\ Len(Schema) = 2
    /\ Schema[1].name = "id"
    /\ IsMissing(2)
    /\ "id" \in DOMAIN args.validate_args
    /\ Returned

\* the validateDeposit call was answered with the ABI string s
ValidateAnswered(s) ==
    /\ ValidateCallIssued
    /\ Len(resps) = Len(calls)
    /\ resps[Len(resps)].ok
    /\ resps[Len(resps)].value.abi = "string"
    /\ resps[Len(resps)].value.s = s

\* C6: validate_deposit_eth returns Valid exactly when the validateDeposit
\* call succeeds and its decoded string equals "valid"; for every other
\* successfully decoded string s it returns Ok(Invalid(s)), s unchanged.
C6_VerdictFromString ==
    (op = "validate_deposit_eth" /\ Returned) =>
        /\ (Unwrap(result) = Ok([verdict |-> "Valid"])) <=> ValidateAnswered(Text(<<"v","a","l","i","d">>))
        /\ \A s \in Verdicts \ {Text(<<"v","a","l","i","d">>)} :
              ValidateAnswered(s) => Unwrap(result) = Ok([verdict |-> "Invalid", reason |-> s])
        /\ Unwrap(result).kind = "Ok" => \E s \in Verdicts : ValidateAnswered(s)

C6_Witness ==
    /\ op = "validate_deposit_eth"
    /\ Returned
    /\ ValidateAnswered(Text(<<"V","a","l","i","d">>))
    /\ Unwrap(result) = Ok([verdict |-> "Invalid", reason |-> Text(<<"V","a","l","i","d">>)])

\* C7: the validateDeposit call is issued only after the
\* getValidateDepositSignature call has returned a string that parses as a
\* JSON array of {type, name}; if the schema call fails, or its result is no
\* string or no such array, the operation fails and the validateDeposit call
\* is never issued.
C7_ValidateAfterSchema ==
    op = "validate_deposit_eth" =>
        /\ \A i \in 1..Len(calls) : IsValidateCall(calls[i]) =>
              /\ i = SignatureIdx + 1
              /\ IsSignatureCall(calls[SignatureIdx])
              /\ SchemaFetched
        /\ SchemaFailed =>
              /\ Returned
              /\ Unwrap(result).kind = "Err"
              /\ ~ValidateCallIssued
              /\ Len(calls) = SignatureIdx

C7_Witness ==
    /\ SchemaFailed
    /\ resps[SignatureIdx].ok
    /\ resps[SignatureIdx].value.abi = "string"
    /\ Returned

\* C8 as stated: a successful run issues exactly two calls to the RPC
\* collaborator, the schema fetch then the validate call, also when
\* block_number is absent.
C8_ExactlyTwoCalls ==
    (op = "validate_deposit_eth" /\ Returned /\ Unwrap(result).kind = "Ok") =>
        /\ Len(calls) = 2
        /\ IsSignatureCall(calls[1])
        /\ IsValidateCall(calls[2])

\* C8 amended: a successful run issues exactly two eth_call requests, the
\* schema fetch then the validate call; when block_number is absent they are
\* preceded by one eth_block_number request (three RPC calls in all), and when
\* it is supplied they are the only RPC calls.
C8_TwoCallsAfterBlockResolution ==
    (op = "validate_deposit_eth" /\ Returned /\ Unwrap(result).kind = "Ok") =>
        /\ Len(calls) = (IF IsSome(args.block_number) THEN 2 ELSE 3)
        /\ ~IsSome(args.block_number) => calls[1] = EthBlockNumber
        /\ IsSignatureCall(calls[Len(calls) - 1])
        /\ IsValidateCall(calls[Len(calls)])

C8_Witness ==
    /\ op = "validate_deposit_eth"
    /\ Returned
    /\ Unwrap(result).kind = "Ok"
    /\ IsSome(args.block_number)
    /\ Len(calls) = 2
    /\ Len(calls[2].data.tokens) = 2

\* C10: a schema parameter named "id" is always bound to the deposit_id
\* argument, also when the caller-supplied mapping has a key "id" with another
\* value, and no missing-parameter failure ever names "id".
C10_IdBoundToDepositId ==
    op = "validate_deposit_eth" =>
        /\ \A i \in 1..Len(calls) : IsValidateCall(calls[i]) =>
              \A k \in 1..Len(Schema) : Schema[k].name = "id" =>
                  /\ calls[i].data.tokens[k] = Uint(args.deposit_id)
                  /\ calls[i].data.inputs[k].name = "id"
        /\ (Returned /\ Unwrap(result).kind = "Err"
                /\ Unwrap(result).msg[1] = "Missing required parameter") =>
              Unwrap(result).msg[2] /= "id"
        /\ (SchemaFetched /\ \A k \in 1..Len(Schema) : Schema[k].name = "id") => ValidateCallIssued

C10_Witness ==
    /\ op = "validate_deposit_eth"
    /\ ValidateCallIssued
    /\ Len(Schema) = 2
    /\ Schema[2].name = "id"
    /\ Schema[1].name = "usage"
    /\ "id" \in DOMAIN args.validate_args
    /\ args.validate_args["id"] = <<"1","0","0">>

\* the k-th declared parameter is not "id", is supplied, and its declared
\* type is not uint128
IsUnsupported(k) ==
    /\ Schema[k].name /= "id"
    /\ Schema[k].name \in DOMAIN args.validate_args
    /\ Schema[k].typ /= "uint128"

\* C11 as stated: a schema parameter other than "id" that is supplied but
\* whose declared type is not "uint128" makes the operation fail with an
\* unsupported-type error naming such a parameter, and the validateDeposit
\* call is never issued.
C11_UnsupportedTypeNamed ==
    (SchemaFetched /\ \E k \in 1..Len(Schema) : IsUnsupported(k)) =>
        /\ Returned
        /\ Unwrap(result).kind = "Err"
        /\ Unwrap(result).msg[1] = "Unsupported type for parameter"
        /\ \E k \in 1..Len(Schema) : IsUnsupported(k) /\ Unwrap(result).msg[2] = Schema[k].name
        /\ ~ValidateCallIssued

\* C11 amended: such a parameter makes the operation fail and the
\* validateDeposit call is never issued; the error is the unsupported-type
\* error naming the first such parameter (with its declared type), unless a
\* parameter declared before it is missing from the mapping or is a uint128
\* with an unparsable value, which is reported instead.
C11_UnsupportedTypeFails ==
    (SchemaFetched /\ \E k \in 1..Len(Schema) : IsUnsupported(k)) =>
        LET first == CHOOSE k \in 1..Len(Schema) :
                        IsUnsupported(k) /\ \A j \in 1..(k - 1) : ~IsUnsupported(j) IN
        /\ Returned
        /\ Unwrap(result).kind = "Err"
        /\ ~ValidateCallIssued
        /\ (\A j \in 1..(first - 1) : ~IsMissing(j) /\ ~IsRejected(j)) =>
              Unwrap(result).msg =
                  <<"Unsupported type for parameter", Schema[first].name, Schema[first].typ>>
        /\ (\E j \in 1..(first - 1) : IsMissing(j) \/ IsRejected(j)) =>
              Unwrap(result).msg[1] \in {"Missing required parameter", "Invalid value for parameter"}

C11_Witness ==
    /\ SchemaFetched
    /\ Len(Schema) = 2
    /\ Schema[1] = [typ |-> "uint128", name |-> "usage"]
    /\ IsUnsupported(2)
    /\ Returned
    /\ Unwrap(result).msg[1] = "Unsupported type for parameter"

\* the block validate_deposit_eth resolved: the one supplied, or the answer
\* to eth_block_number
ResolvedBlock == IF IsSome(args.block_number) THEN Unwrap(args.block_number) ELSE resps[1].value

\* C12: whenever the validateDeposit call is issued, the parameter list and
\* the value list of the constructed function have the length of the fetched
\* schema, the i-th parameter name is the i-th schema entry's name, and the
\* call goes to the lock contract at the resolved target block.
C12_CallShape ==
    op = "validate_deposit_eth" =>
        \A i \in 1..Len(calls) : IsValidateCall(calls[i]) =>
            /\ Len(calls[i].data.inputs) = Len(Schema)
            /\ Len(calls[i].data.tokens) = Len(Schema)
            /\ \A k \in 1..Len(Schema) : calls[i].data.inputs[k].name = Schema[k].name
            /\ calls[i].to = args.lock_contract_address
            /\ calls[i].block = Some(Number(ResolvedBlock))

C12_Witness ==
    /\ op = "validate_deposit_eth"
    /\ ValidateCallIssued
    /\ ~IsSome(args.block_number)
    /\ Len(Schema) = 2
    /\ Schema[1].name = "limit"
    /\ Schema[2].name = "usage"

-----------------------------------------------------------------------------
(* Properties of the deposit id codec *)

Unpacked == op = "deposit_id" /\ pc = "done"

\* C13: for every funder and every 64-bit nonce, unpacking the packed id
\* gives the nonce back (nonce_from_deposit_id after deposit_id_from_nonce),
\* and the funder of a DepositId wrapping the packed id is the funder.
C13_RoundTrip ==
    Unpacked =>
        /\ Unwrap(result).value.nonce = args.nonce
        /\ Unwrap(result).value.funder = args.funder

\* a nonce with all eight bytes non-zero and a funder with twenty different
\* bytes came back
C13_Witness ==
    /\ Unpacked
    /\ args.nonce = [k \in 1..4 |-> 258]
    /\ args.funder = [i \in 1..20 |-> i]
    /\ Unwrap(result).value.nonce = args.nonce

Packed == op = "deposit_id" /\ pc \in {"packed", "done"}

\* C14: the id packed from a funder and a nonce has the funder in bytes 0-19,
\* zeros in bytes 20-23 and the big-endian nonce in bytes 24-31 of its
\* 32-byte big-endian form (numerically funder * 2^96 + nonce), and no other
\* (funder, nonce) pair packs to the same id.
C14_Layout ==
    Packed =>
        /\ Len(locals.deposit_id) = 32
        /\ \A i \in 1..20 : locals.deposit_id[i] = args.funder[i]
        /\ \A i \in 21..24 : locals.deposit_id[i] = 0
        /\ \A k \in 1..4 :
              256 * locals.deposit_id[23 + 2 * k] + locals.deposit_id[24 + 2 * k] = args.nonce[k]
        /\ \A other \in DepositIdArgs :
              deposit_id_from_nonce(other.funder, other.nonce) = locals.deposit_id
                  => other = args

\* an id whose funder part and nonce part are both without a zero byte
C14_Witness ==
    /\ Packed
    /\ args.funder = [i \in 1..20 |-> 255]
    /\ args.nonce = [k \in 1..4 |-> 65535]
    /\ locals.deposit_id[25] = 255

----------------------------------------------------------------------------
(* Properties of the single-purpose queries *)

\* the bytes the getDeposit call answered with, once it has answered
DepositAnswered ==
    /\ op = "get_deposit_details"
    /\ pc = "done"
    /\ Len(resps) = Len(calls)
    /\ calls[Len(calls)].method = "eth_call"
    /\ resps[Len(resps)].ok

\* C15: DepositView::decode_from_bytes returns an error for every input whose
\* length is not 6 * 32 = 192 bytes; a DepositView, and so a successful
\* get_deposit_details, comes only from an answer of exactly 192 bytes.
C15_LengthChecked ==
    DepositAnswered =>
        /\ Len(resps[Len(resps)].value) /= 192 =>
              /\ Unwrap(result).kind = "Err"
              /\ Unwrap(result).msg = <<"Invalid response length", Len(resps[Len(resps)].value), 192>>
        /\ Unwrap(result).kind = "Ok" => Len(resps[Len(resps)].value) = 192

\* an answer whose first 192 bytes are a well-formed deposit, followed by 32
\* more bytes, was rejected
C15_Witness ==
    /\ DepositAnswered
    /\ Len(resps[Len(resps)].value) = 224
    /\ decode_deposit_words(resps[Len(resps)].value).kind = "Ok"
    /\ Unwrap(result).kind = "Err"

----------------------------------------------------------------------------
(* Properties of the decoders behind get_balance *)

\* the wrapper eth_call was answered with a well-formed 5-tuple
WrapperDecoded ==
    /\ AtomicPath
    /\ Len(resps) >= 1
    /\ resps[1].ok
    /\ resps[1].value.abi = "tuple5"

AttestationDecoded ==
    /\ op = "get_attestation_details"
    /\ Returned
    /\ resps[1].ok
    /\ resps[1].value.abi = "tuple10"

\* C17: when the first field of the decoded answer is 32 zero bytes,
\* get_attestation_details returns Ok(None) whatever the other fields are, a
\* zero or out-of-range time included; an attestation it does return never
\* has an all-zero uid.
C17_ZeroUidIsAbsent ==
    AttestationDecoded =>
        /\ resps[1].value.uid = BytesOf(32, 0) => Unwrap(result) = Ok(None)
        /\ (Unwrap(result).kind = "Ok" /\ IsSome(Unwrap(result).value)) =>
              Unwrap(Unwrap(result).value).uid /= BytesOf(32, 0)

\* a zero uid together with a time that converts to no instant gave "absent"
C17_Witness ==
    /\ AttestationDecoded
    /\ resps[1].value.uid = BytesOf(32, 0)
    /\ resps[1].value.time = MaxTimestamp + 1
    /\ Unwrap(result) = Ok(None)

\* the balanceOf eth_call of get_balance_simple was answered with bytes
BalanceOfAnswered ==
    /\ op = "get_balance"
    /\ pc = "done"
    /\ Len(calls) >= 1
    /\ Len(resps) = Len(calls)
    /\ calls[Len(calls)].method = "eth_call"
    /\ calls[Len(calls)].data.name = "balanceOf"
    /\ resps[Len(resps)].ok

\* C18: on the fallback path with a token address, get_balance_simple returns
\* the error "Invalid balance response ... Probably not a valid ERC20
\* contract" whenever the balanceOf eth_call answers with a number of bytes
\* other than 32, and a token balance only for a 32-byte answer.
C18_TokenAnswerIs32Bytes ==
    BalanceOfAnswered =>
        /\ IsSome(args.token_address)
        /\ IsSome(simple_ret)
        /\ Len(resps[Len(resps)].value) /= 32 =>
              /\ Unwrap(simple_ret).kind = "Err"
              /\ Unwrap(simple_ret).msg[1] = "Invalid balance response. Probably not a valid ERC20 contract"
              /\ Unwrap(simple_ret).msg[3] = Unwrap(args.token_address)
        /\ Unwrap(simple_ret).kind = "Ok" =>
              /\ Len(resps[Len(resps)].value) = 32
              /\ Unwrap(simple_ret).value.token_balance = Some(BigEndian(resps[Len(resps)].value))

\* a 31-byte answer, which would still fit a 256-bit integer, was refused
C18_Witness ==
    /\ BalanceOfAnswered
    /\ Len(resps[Len(resps)].value) = 31
    /\ Unwrap(simple_ret).kind = "Err"

\* the wrapper answer was decoded and passed the chain id verification
WrapperAccepted ==
    /\ WrapperDecoded
    /\ decode_call_with_details(resps[1].value).kind = "Ok"
    /\ ~chain_id_mismatch(args.chain_id, resps[1].value.chain_id)

\* C19: on the atomic path, for a nested-call return of any length, the token
\* balance returned is the big-endian unsigned integer formed by the last 32
\* bytes of that nested return (by all of it when it is shorter).
C19_LastThirtyTwoBytes ==
    WrapperAccepted =>
        LET nested == resps[1].value.call_result IN
        /\ Returned
        /\ Unwrap(result).kind = "Ok"
        /\ Unwrap(result).value.token_balance =
              Some(BigEndian(SubSeq(nested, IF Len(nested) > 32 THEN Len(nested) - 31 ELSE 1,
                                    Len(nested))))

----------------------------------------------------------------------------
(* Properties of all operations *)

\* the i-th RPC call is the wrapper call of the atomic balance path and
\* failed with the "insufficient funds" signal
IsFallbackSignal(i) ==
    /\ AtomicPath
    /\ i = 1
    /\ is_insufficient_funds(resps[i].err)

\* C20: no operation issues an RPC call again after it failed: once an RPC
\* call has returned an error, the operation has issued no further RPC call
\* and has returned an error; the one exception is the wrapper call of
\* get_balance failing with "insufficient funds", after which only the calls
\* of the fallback path follow, none of them the failed call.
C20_NoRetry ==
    op \in {"get_balance", "validate_deposit_eth", "get_deposit_details",
            "get_attestation_details", "get_schema_details", "check_allowance"} =>
    \A i \in 1..Len(resps) : ~resps[i].ok =>
        IF IsFallbackSignal(i)
        THEN \A j \in (i + 1)..Len(calls) : IsFallbackCall(calls[j]) /\ calls[j] /= calls[i]
        ELSE /\ Len(calls) = i
             /\ Returned
             /\ Unwrap(result).kind = "Err"

\* get_deposit_details resolved the block, its getDeposit call failed, and
\* it returned the error after those two calls
C20_Witness ==
    /\ op = "get_deposit_details"
    /\ Len(calls) = 2
    /\ Len(resps) = 2
    /\ resps[1].ok
    /\ ~resps[2].ok
    /\ Returned
    /\ Unwrap(result).kind = "Err"

----------------------------------------------------------------------------
(* Properties settled after the first twenty *)

\* the wrapper eth_call succeeded but its answer did not decode: the bytes
\* are no 5-tuple, or the timestamp converts to no instant
WrapperUndecodable ==
    /\ AtomicPath
    /\ Len(resps) >= 1
    /\ resps[1].ok
    /\ decode_call_with_details(resps[1].value).kind = "Err"

\* C21: a decode failure of the wrapper answer on the atomic path makes
\* get_balance return that error; it is not taken for the "unsupported"
\* signal: get_balance_simple is not run and no further RPC call is issued.
C21_DecodeFailureIsFinal ==
    WrapperUndecodable =>
        /\ Returned
        /\ Unwrap(result) = decode_call_with_details(resps[1].value)
        /\ Unwrap(result).msg[1] \in {"Failed to decode call with details",
                                      "Failed to convert timestamp to datetime"}
        /\ Len(calls) = 1
        /\ NumFallbackCalls = 0
        /\ simple_ret = None

\* a malformed wrapper answer ended the invocation after its single call
C21_Witness ==
    /\ WrapperUndecodable
    /\ resps[1].value = Malformed
    /\ Returned
    /\ Len(calls) = 1

\* the characters after the 0x of a formatted number are lower-case digits
IsPrefixedLowerHex(str) ==
    /\ Len(str) >= 3
    /\ SubSeq(str, 1, 2) = <<"0", "x">>
    /\ \A i \in 3..Len(str) : IsDigit(HexDigits, str[i])

\* C22: to_db_string gives the 0x-prefixed lower-case hexadecimal deposit id,
\* a dash, and the 0x-prefixed lower-case hexadecimal lock address;
\* from_db_string of that string is the DepositId it came from; and
\* from_db_string fails with "Invalid depositId format" for every string
\* that does not split on the dash into exactly two parts.
C22_DbStringRoundTrip ==
    /\ (op = "to_db_string" /\ pc /= "start") =>
          /\ Len(split(locals.text, "-")) = 2
          /\ IsPrefixedLowerHex(split(locals.text, "-")[1])
          /\ IsPrefixedLowerHex(split(locals.text, "-")[2])
          /\ Len(split(locals.text, "-")[2]) = 42
          /\ hex_bytes(SubSeq(split(locals.text, "-")[1], 3, Len(split(locals.text, "-")[1])), 32)
                = args.deposit_id
          /\ hex_bytes(SubSeq(split(locals.text, "-")[2], 3, 42), 20) = args.lock_address
    /\ (op = "to_db_string" /\ pc = "done") => Unwrap(result) = Ok(args)
    /\ (op = "from_db_string" /\ pc = "done" /\ Len(split(args.text, "-")) /= 2) =>
          Unwrap(result) = Err(<<"Invalid depositId format">>)

\* a deposit id with leading zero digits and an address with leading zero
\* bytes came back from their text
C22_Witness ==
    /\ op = "to_db_string"
    /\ pc = "done"
    /\ args.deposit_id[1] = 0
    /\ args.deposit_id[20] = 1
    /\ args.lock_address[1] = 0
    /\ Len(locals.text) = 70
    /\ Unwrap(result) = Ok(args)

\* the entries of the schema string, and whether the k-th has two tokens
SchemaItems == split(args.schema, ",")
HasTwoTokens(k) == Len(split(trim(SchemaItems[k]), " ")) = 2

\* C23: in the schema-driven decode, a comma-separated entry that does not
\* split into exactly two tokens makes the operation fail before the payload
\* is decoded (the error is about the schema, never the decode error, never
\* a success); on success the i-th decoded value is paired with the i-th
\* declared name.
C23_SchemaEntries ==
    (op = "check_attestation_local" /\ pc = "done") =>
        /\ (\E k \in 1..Len(SchemaItems) : ~HasTwoTokens(k)) =>
              /\ Unwrap(result).kind = "Err"
              /\ Unwrap(result).msg[1] \in {"Invalid item in schema", "Failed to read param type"}
        /\ Unwrap(result).kind = "Ok" =>
              /\ Len(Unwrap(result).value) = Len(SchemaItems)
              /\ Len(Unwrap(result).value) = Len(args.data.values)
              /\ \A i \in 1..Len(SchemaItems) :
                    /\ Unwrap(result).value[i].token = args.data.values[i]
                    /\ Unwrap(result).value[i].token_name = split(trim(SchemaItems[i]), " ")[2]

\* a schema whose second entry has one token was refused although the
\* payload matches its first entry
C23_Witness ==
    /\ op = "check_attestation_local"
    /\ pc = "done"
    /\ Len(SchemaItems) = 2
    /\ HasTwoTokens(1)
    /\ ~HasTwoTokens(2)
    /\ args.data.types = << <<"u">> >>
    /\ Unwrap(result).kind = "Err"

\* C25: for every address and amount, decoding the bytes produced by
\* encode_erc20_transfer(address, amount) against transfer(address,uint256)
\* recovers the same address and amount; the bytes are the selector and two
\* 32-byte words.
C25_TransferRoundTrip ==
    /\ (op = "encode_erc20_transfer" /\ pc /= "start") => Len(locals.data) = 68
    /\ (op = "encode_erc20_transfer" /\ pc = "done") =>
          Unwrap(result) = Ok([address |-> args.address, amount |-> args.amount])

\* an address of twenty different bytes and an amount that fills all 32 bytes
C25_Witness ==
    /\ op = "encode_erc20_transfer"
    /\ pc = "done"
    /\ args.address = [i \in 1..20 |-> i]
    /\ args.amount[1] = 255
    /\ args.amount[32] = 255
    /\ Unwrap(result).kind = "Ok"

\* the k-th declared parameter is a uint128 the caller supplied, and its text
IsSuppliedUint128(k) ==
    /\ Schema[k].name /= "id"
    /\ Schema[k].name \in DOMAIN args.validate_args
    /\ Schema[k].typ = "uint128"
SuppliedText(k) == args.validate_args[Schema[k].name]

IsDecimal(str) == \A i \in 1..Len(str) : IsDigit(DecDigits, str[i])
IsHex(str) == \A i \in 1..Len(str) : IsDigit(HexDigits, str[i])
HasPrefix(str) == Len(str) >= 2 /\ SubSeq(str, 1, 2) = <<"0", "x">>

\* the token the validateDeposit call carries for the k-th parameter
ValidateToken(k) ==
    calls[CHOOSE i \in 1..Len(calls) : IsValidateCall(calls[i])].data.tokens[k]

\* C26 as stated: a supplied uint128 value is parsed as decimal first and,
\* only if that fails, as a 0x-prefixed hexadecimal string; if both fail the
\* operation returns "Invalid value for parameter <name>" and the
\* validateDeposit call is never issued.
C26_DecimalThenPrefixedHex ==
    SchemaFetched => \A k \in 1..Len(Schema) : IsSuppliedUint128(k) =>
        IF IsDecimal(SuppliedText(k))
        THEN ValidateCallIssued => ValidateToken(k) = Uint(U256_from(PositionalValue(DecDigits, SuppliedText(k))))
        ELSE IF HasPrefix(SuppliedText(k)) /\ IsHex(strip_0x(SuppliedText(k)))
        THEN ValidateCallIssued =>
                ValidateToken(k) = Uint(hex_bytes(strip_0x(SuppliedText(k)), 32))
        ELSE /\ Returned
             /\ Unwrap(result) = Err(<<"Invalid value for parameter", Schema[k].name>>)
             /\ ~ValidateCallIssued

\* C26 amended: a supplied uint128 value is parsed as decimal first and, only
\* if that fails, as hexadecimal with an optional 0x prefix; if both fail the
\* operation fails and the validateDeposit call is never issued, the error
\* being "Invalid value for parameter <name>" unless a parameter declared
\* before it already failed.
C26_DecimalThenHex ==
    SchemaFetched => \A k \in 1..Len(Schema) : IsSuppliedUint128(k) =>
        IF IsDecimal(SuppliedText(k))
        THEN ValidateCallIssued => ValidateToken(k) = Uint(U256_from(PositionalValue(DecDigits, SuppliedText(k))))
        ELSE IF IsHex(strip_0x(SuppliedText(k)))
        THEN ValidateCallIssued =>
                ValidateToken(k) = Uint(hex_bytes(strip_0x(SuppliedText(k)), 32))
        ELSE /\ Returned
             /\ Unwrap(result).kind = "Err"
             /\ ~ValidateCallIssued
             /\ (\A j \in 1..(k - 1) : ~IsMissing(j) /\ ~IsRejected(j)) =>
                   Unwrap(result) = Err(<<"Invalid value for parameter", Schema[k].name>>)

\* "100" went out as one hundred and "ff" as 255 in the same call
C26_Witness ==
    /\ SchemaFetched
    /\ ValidateCallIssued
    /\ Len(Schema) = 2
    /\ IsSuppliedUint128(1)
    /\ IsSuppliedUint128(2)
    /\ SuppliedText(1) = <<"1", "0", "0">>
    /\ SuppliedText(2) = <<"f", "f">>
    /\ ValidateToken(1) = Uint(U256_from(100))
    /\ ValidateToken(2) = Uint(U256_from(255))

\* the schema fetch has just been answered: the state in which the steps up
\* to the validateDeposit call have run on that answer
SchemaJustFetched == SchemaFetched /\ Len(resps) = SignatureIdx

\* the outcome of the per-parameter loop on the fetched schema
LoopOutcome ==
    match_params([matched_params |-> <<>>, function_params |-> <<>>, function_values |-> <<>>],
                 Schema, 1, args)

\* C27: the converse check after the loop adds no rule: whenever the loop
\* over the declared parameters completes without error, every declared name
\* is in matched_params and the check passes; a "Missing required parameter"
\* error therefore always names a parameter, other than id, that the caller
\* did not supply.
C27_ConverseCheckNeverFails ==
    SchemaFetched =>
        /\ SchemaJustFetched =>
              LET m == LoopOutcome IN
              m.kind = "Ok" =>
                  /\ \A k \in 1..Len(Schema) : InSeq(Schema[k].name, m.value.matched_params)
                  /\ check_all_matched(m.value, Schema).kind = "Ok"
                  /\ ValidateCallIssued
        /\ (Returned /\ Unwrap(result).kind = "Err"
              /\ Unwrap(result).msg[1] = "Missing required parameter") =>
              /\ Unwrap(result).msg[2] /= "id"
              /\ Unwrap(result).msg[2] \notin DOMAIN args.validate_args

\* the loop completed on a schema declaring id and a supplied parameter
C27_Witness ==
    /\ SchemaFetched
    /\ Len(Schema) = 2
    /\ Schema[1].name = "usage"
    /\ Schema[2].name = "id"
    /\ SchemaJustFetched
    /\ LoopOutcome.kind = "Ok"
    /\ ValidateCallIssued

\* the successful balance queries among the first n answers
Successes(n) == Cardinality({ i \in 1..n : resps[i].kind = "Ok" })

\* the number of iterations asked for: debug_loop, 1 when unset
Iterations == IF IsSome(args.debug_loop) THEN Unwrap(args.debug_loop) ELSE 1

\* C28: test_balance_loop returns only with Ok, only when debug_loop (1 when
\* unset) is positive and exactly that many balance queries have succeeded,
\* and never with debug_loop = 0; the job number is the number of successful
\* queries, every query asks for the address of the job number at that time,
\* so the query after a failed one repeats its address and the query after a
\* successful one asks for the next address.
C28_LoopCountsSuccesses ==
    op = "test_balance_loop" =>
        /\ locals.job_no = Successes(Len(resps))
        /\ Iterations > 0 => locals.job_no <= Iterations
        /\ pc = "done" =>
              /\ result = Some(Ok(<<>>))
              /\ Iterations > 0
              /\ Successes(Len(resps)) = Iterations
              /\ Len(calls) = Len(resps)
        /\ \A i \in 1..Len(calls) : calls[i] = job_address(Successes(i - 1)).value
        /\ \A i \in 1..(Len(calls) - 1) :
              IF resps[i].kind = "Ok" THEN calls[i + 1] /= calls[i] ELSE calls[i + 1] = calls[i]

\* a run asked for two iterations returned after a failed query was repeated
C28_Witness ==
    /\ op = "test_balance_loop"
    /\ args.debug_loop = Some(2)
    /\ pc = "done"
    /\ Len(resps) = 3
    /\ resps[1].kind = "Err"
    /\ calls[2] = calls[1]
    /\ calls[3] /= calls[2]

\* the eth_block calls of the invocation, and the block the first of them
\* was answered with
EthBlockCalls == { i \in 1..Len(calls) : calls[i].method = "eth_block" }
EthBlockIdx == CHOOSE i \in EthBlockCalls : \A j \in EthBlockCalls : i <= j
BlockAnswered ==
    /\ EthBlockCalls /= {}
    /\ Len(resps) >= EthBlockIdx
    /\ resps[EthBlockIdx].ok
    /\ IsSome(resps[EthBlockIdx].value)
    /\ IsSome(Unwrap(resps[EthBlockIdx].value).number)
AnsweredBlock == Unwrap(resps[EthBlockIdx].value)

\* C29: the fallback path issues one eth_block call, for the explicit block of
\* the request or for the latest one; its eth_balance query and its balanceOf
\* eth_call both name the number of the block that call returned, and a
\* result of the fallback path carries that number and the date of that
\* block's timestamp.
C29_PinnedToOneBlock ==
    op = "get_balance" =>
        /\ Cardinality(EthBlockCalls) <= 1
        /\ \A i \in EthBlockCalls :
              calls[i].block = (IF IsSome(args.block_number)
                                THEN Number(Unwrap(args.block_number)) ELSE Latest)
        /\ \A i \in 1..Len(calls) :
              (IsFallbackCall(calls[i]) /\ calls[i].method /= "eth_block") =>
                  /\ BlockAnswered
                  /\ EthBlockIdx < i
                  /\ calls[i].block = Some(Number(Unwrap(AnsweredBlock.number)))
        /\ (IsSome(simple_ret) /\ Unwrap(simple_ret).kind = "Ok") =>
              /\ BlockAnswered
              /\ Unwrap(simple_ret).value.block_number = Unwrap(AnsweredBlock.number)
              /\ Some(Unwrap(simple_ret).value.block_datetime)
                    = datetime_from_u256_timestamp(AnsweredBlock.timestamp)

\* a request for the latest block was answered from block 2 on the fallback
\* path, token balance included
C29_Witness ==
    /\ op = "get_balance"
    /\ args.block_number = None
    /\ IsSome(simple_ret)
    /\ Unwrap(simple_ret).kind = "Ok"
    /\ Unwrap(simple_ret).value.block_number = 2
    /\ Len(calls) >= 3
    /\ calls[Len(calls)].method = "eth_call"
    /\ calls[Len(calls)].block = Some(Number(2))
    /\ calls[Len(calls) - 1].method = "eth_balance"
    /\ calls[Len(calls) - 1].block = Some(Number(2))

\* C30: every Ok result of get_balance has gas_balance present, and has
\* token_balance present exactly when the request named a token address; a
\* result of the atomic path has both.
C30_BalancesPresent ==
    (op = "get_balance" /\ Returned /\ Unwrap(result).kind = "Ok") =>
        /\ IsSome(Unwrap(result).value.gas_balance)
        /\ IsSome(Unwrap(result).value.token_balance) <=> IsSome(args.token_address)
        /\ simple_ret = None =>
              /\ AtomicPath
              /\ IsSome(Unwrap(result).value.token_balance)

\* a request without token address returned Ok
C30_Witness ==
    /\ op = "get_balance"
    /\ Returned
    /\ Unwrap(result).kind = "Ok"
    /\ args.token_address = None
    /\ IsSome(args.call_with_details)
    /\ IsSome(Unwrap(result).value.gas_balance)
    /\ Unwrap(result).value.token_balance = None

----------------------------------------------------------------------------
(* Properties settled after the first thirty *)

\* the names the fetched schema declares, and the request with the arguments
\* of undeclared names taken out
Declared == { Schema[k].name : k \in 1..Len(Schema) }
DeclaredArgsOnly ==
    [args EXCEPT !.validate_args =
        [n \in (DOMAIN args.validate_args) \cap Declared |-> args.validate_args[n]]]
ValidateCall == calls[CHOOSE i \in 1..Len(calls) : IsValidateCall(calls[i])]

\* C31: arguments whose names the fetched schema does not declare are
\* ignored: the outcome of the steps between the schema fetch and the
\* validateDeposit call is the one the request without them has, an error
\* about a parameter names a declared one, and the call has one parameter and
\* one value per declared name, each value that of the declared name; stated
\* of the state in which the schema fetch has just been answered, the calls
\* issued being kept from then on.
C31_UndeclaredIgnored ==
    SchemaJustFetched =>
        /\ prepare_validate_call(args, resps[SignatureIdx].value)
              = prepare_validate_call(DeclaredArgsOnly, resps[SignatureIdx].value)
        /\ (Returned /\ Unwrap(result).kind = "Err") =>
              Unwrap(result) = prepare_validate_call(DeclaredArgsOnly, resps[SignatureIdx].value)
        /\ ValidateCallIssued =>
              /\ Len(ValidateCall.data.inputs) = Len(Schema)
              /\ Len(ValidateCall.data.tokens) = Len(Schema)
              /\ \A k \in 1..Len(Schema) :
                    /\ ValidateCall.data.inputs[k].name = Schema[k].name
                    /\ ValidateCall.data.tokens[k] =
                          (IF Schema[k].name = "id" THEN Uint(args.deposit_id)
                           ELSE Uint(parse_value(Schema[k].name, SuppliedText(k)).value))

\* the schema declares usage only, the caller supplied usage and limit, and
\* the validateDeposit call was issued
C31_Witness ==
    /\ SchemaFetched
    /\ Len(Schema) = 1
    /\ Schema[1].name = "usage"
    /\ DOMAIN args.validate_args = {"usage", "limit"}
    /\ SchemaJustFetched
    /\ ValidateCallIssued
    /\ Len(ValidateCall.data.tokens) = 1

\* a U256 of at least 2^128: one of its sixteen high-order bytes is set
AtLeastTwoTo128(value) == \E i \in 1..16 : value[i] /= 0

\* C32: a value supplied for a declared uint128 parameter is not checked
\* against the range of uint128: when every declared parameter is supplied
\* with a supported type and a text that parses as a U256, the validateDeposit
\* call is issued and carries, for each uint128 parameter, the parsed value as
\* the token of a parameter of kind uint128, values of 2^128 and more
\* included.
C32_NoRangeCheck ==
    SchemaJustFetched =>
        /\ (\A j \in 1..Len(Schema) : ~IsMissing(j) /\ ~IsRejected(j)) => ValidateCallIssued
        /\ ValidateCallIssued =>
              \A k \in 1..Len(Schema) : IsSuppliedUint128(k) =>
                  /\ ValidateCall.data.inputs[k].kind = <<"Uint", 128>>
                  /\ ValidateCall.data.tokens[k]
                        = Uint(parse_value(Schema[k].name, SuppliedText(k)).value)
                  /\ SuppliedText(k) = TwoTo128Text =>
                        /\ AtLeastTwoTo128(ValidateCall.data.tokens[k][2])
                        /\ ValidateCall.data.tokens[k][2][16] = 1

\* 2^128 went out as the value of the uint128 parameter limit
C32_Witness ==
    /\ SchemaJustFetched
    /\ ValidateCallIssued
    /\ \E k \in 1..Len(Schema) :
          /\ IsSuppliedUint128(k)
          /\ Schema[k].name = "limit"
          /\ SuppliedText(k) = TwoTo128Text
          /\ ValidateCall.data.inputs[k].kind = <<"Uint", 128>>
          /\ AtLeastTwoTo128(ValidateCall.data.tokens[k][2])

\* C33: the two nonce extractors agree on every 256-bit id: DepositId::nonce
\* never panics and returns the u64 that nonce_from_deposit_id returns, the
\* last eight of the id's big-endian bytes.
C33_NonceExtractorsAgree ==
    (op = "nonce" /\ Returned) =>
        /\ Unwrap(result).value.nonce.kind = "Ok"
        /\ Unwrap(result).value.nonce.value = Unwrap(result).value.nonce_from_deposit_id
        /\ to_be_bytes(Unwrap(result).value.nonce.value) = SubSeq(args.deposit_id, 25, 32)

\* both extractors were applied to an id with every bit set
C33_Witness ==
    /\ op = "nonce"
    /\ Returned
    /\ args.deposit_id = [i \in 1..32 |-> 255]
    /\ Unwrap(result).value.nonce_from_deposit_id = <<65535, 65535, 65535, 65535>>

----------------------------------------------------------------------------
(* Properties of the key-queue server *)

NoDuplicates(q) == \A i, j \in 1..Len(q) : i /= j => q[i] /= q[j]

\* the answered requests that were an add_to_queue of a well-formed key
IsAddAnswer(resp) ==
    /\ calls[resp.request].handler = "add_to_queue"
    /\ locals.handlers[resp.request].item /= <<>>

\* C34: started on a queue file without duplicates (or absent, or
\* unreadable), the stored queue never holds an item twice; and an add of a
\* key the queue already holds answers "Item already in the queue" and leaves
\* the file as it was read.
C34_NoDuplicates ==
    op = "web3_account_server" =>
        /\ NoDuplicates(read_results(args.file)) => NoDuplicates(read_results(locals.file))
        /\ \A i \in 1..Len(resps) :
              (IsAddAnswer(resps[i])
                  /\ InSeq(locals.handlers[resps[i].request].item, resps[i].results)) =>
                  /\ resps[i].response = HttpResponse("Ok", "Item already in the queue")
                  /\ resps[i].file = Json(resps[i].results)

\* the key ...0a, queued in the file, was added again as 0x...0A
C34_Witness ==
    /\ op = "web3_account_server"
    /\ args.file = Json(<<Key("a")>>)
    /\ Len(resps) = 1
    /\ calls[resps[1].request] = [handler |-> "add_to_queue", item |-> <<"0","x">> \o Key("A")]
    /\ resps[1].response.body = "Item already in the queue"
    /\ locals.file = Json(<<Key("a")>>)

\* the handlers between their lock().await and their return
InHandler == { r \in 1..Len(calls) : locals.handlers[r].pc \in {"locked", "read"} }

\* the items get_from_queue returned, and the items inserted: those of the
\* file the server started on, then those /add answered "Added to the queue"
\* for, each in the order of the answers
IsGot(resp) ==
    /\ calls[resp.request].handler = "get_from_queue"
    /\ resp.response.status = "Ok"
IsAdded(resp) ==
    /\ calls[resp.request].handler = "add_to_queue"
    /\ resp.response = HttpResponse("Ok", "Added to the queue")
Got == [i \in 1..Len(SelectSeq(resps, IsGot)) |-> SelectSeq(resps, IsGot)[i].response.body]
Inserted ==
    read_results(args.file)
        \o [i \in 1..Len(SelectSeq(resps, IsAdded)) |->
               locals.handlers[SelectSeq(resps, IsAdded)[i].request].item]
Occurrences(q, x) == Cardinality({ i \in 1..Len(q) : q[i] = x })

\* C35: at most one handler is between its lock().await and its return, and
\* it is the holder of the mutex; the items get returned are, in the order
\* of the answers, the first of the items inserted, so that an item is
\* returned no more often than it was inserted.
C35_ExclusiveFifo ==
    op = "web3_account_server" =>
        /\ Cardinality(InHandler) <= 1
        /\ \A r \in 1..Len(calls) : r \in InHandler <=> locals.lock = Some(r)
        /\ Len(Got) <= Len(Inserted)
        /\ \A i \in 1..Len(Got) : Got[i] = Inserted[i]
        /\ \A i \in 1..Len(Got) : Occurrences(Got, Got[i]) <= Occurrences(Inserted, Got[i])

\* two get requests were answered from the file [...0b, ...0a]: first ...0b,
\* then ...0a
C35_Witness ==
    /\ op = "web3_account_server"
    /\ args.file = Json(<<Key("b"), Key("a")>>)
    /\ Len(resps) = 2
    /\ Got = <<Key("b"), Key("a")>>
    /\ locals.file = Json(<<>>)
----------------------------------------------------------------------------
(* Properties of the offer server *)

\* the handler and the decoded body of the request answer i belongs to, and
\* the maps as the server started on them
HandlerOf(i) == calls[resps[i].request].handler
BodyOf(i) == calls[resps[i].request].item.value
Decoded(i) == calls[resps[i].request].item.kind = "Ok"
StartedOn == [offer_map |-> args.offer_map, demand_map |-> args.demand_map]

\* answer i of /offer/take hands out the offer id
HandsOut(i, id) ==
    /\ HandlerOf(i) = "get_if_available"
    /\ DOMAIN resps[i].response.body = {"json"}
    /\ resps[i].response.body.json.id = id

\* C36: the maps change only in the step a handler answers in; across such
\* a step an offer that stays in offer_map and was unavailable is still
\* unavailable; push_offer of a registered id answers "already registered"
\* and leaves both maps alone; and between two answers of /offer/take that
\* hand out the same offer id, the id has left offer_map.
C36_HandedOutOnce ==
    op = "yagna_offer_server" =>
        /\ [offer_map |-> locals.offer_map, demand_map |-> locals.demand_map]
               = IF resps = <<>> THEN StartedOn ELSE resps[Len(resps)].after
        /\ \A i \in 1..Len(resps) :
              /\ resps[i].before = IF i = 1 THEN StartedOn ELSE resps[i - 1].after
              /\ \A id \in DOMAIN resps[i].before.offer_map \cap DOMAIN resps[i].after.offer_map :
                    ~resps[i].before.offer_map[id].available
                        => ~resps[i].after.offer_map[id].available
              /\ (/\ HandlerOf(i) = "push_offer"
                  /\ Decoded(i)
                  /\ BodyOf(i).id \in DOMAIN resps[i].before.offer_map)
                    => /\ resps[i].after = resps[i].before
                       /\ resps[i].response
                              = HttpResponse("Ok", format("Offer already registered", BodyOf(i).id))
        /\ \A i, j \in 1..Len(resps) : \A id \in {"o1", "o2"} :
              (i < j /\ HandsOut(i, id) /\ HandsOut(j, id))
                  => \E k \in i..(j - 1) : id \notin DOMAIN resps[k].after.offer_map

\* two requests of /offer/take met the one available offer o1: the first
\* answer hands it out, the second one finds no available offer
C36_Witness ==
    /\ op = "yagna_offer_server"
    /\ Len(resps) = 2
    /\ args.offer_map = insert(EmptyMap, "o1", OfferObj(OfferO1, TRUE))
    /\ HandsOut(1, "o1")
    /\ HandlerOf(2) = "get_if_available"
    /\ resps[2].response = HttpResponse("Ok", body("No available offers"))
    /\ ~locals.offer_map["o1"].available

\* how often an offer id is queued over all demands
RECURSIVE QueuedIn(_, _, _)
QueuedIn(demand_map, keys, id) ==
    IF keys = <<>> THEN 0
    ELSE Len(SelectSeq(demand_map[keys[1]].offer_list, LAMBDA o : o = id))
             + QueuedIn(demand_map, Tail(keys), id)
Queued(demand_map, id) == QueuedIn(demand_map, Keys(demand_map), id)

\* only the four requests of the demand queues have arrived
OnlyDemandRequests ==
    \A r \in 1..Len(calls) :
        calls[r].handler \in {"add_offer_to_demand", "take_offer_from_queue",
                              "demand_new", "demand_cancel"}

\* C37: when only add_offer_to_demand, take_offer_from_queue, demand_new and
\* demand_cancel requests have arrived, no offer id is queued more than once
\* over all the demands; and an add_offer_to_demand that does not answer Ok
\* leaves offer_map and demand_map as they were.
C37_QueuedOnce ==
    op = "yagna_offer_server" =>
        /\ OnlyDemandRequests => \A id \in {"o1", "o2"} : Queued(locals.demand_map, id) <= 1
        /\ \A i \in 1..Len(resps) :
              (HandlerOf(i) = "add_offer_to_demand" /\ resps[i].response.status /= "Ok")
                  => resps[i].after = resps[i].before

\* o1 was added to the queue of d1, and adding it to the queue of d2 was
\* refused: it is queued once
C37_Witness ==
    /\ op = "yagna_offer_server"
    /\ OnlyDemandRequests
    /\ Len(resps) = 2
    /\ HandlerOf(1) = "add_offer_to_demand"
    /\ resps[1].response.status = "Ok"
    /\ HandlerOf(2) = "add_offer_to_demand"
    /\ Decoded(2)
    /\ BodyOf(2) = [demand_id |-> "d2", offer_id |-> "o1"]
    /\ resps[2].response = HttpResponse("Conflict", body("Offer is not available"))
    /\ Queued(locals.demand_map, "o1") = 1

\* every queued offer id is a key of offer_map
QueuedArePresent(offer_map, demand_map) ==
    \A d \in DOMAIN demand_map : \A k \in 1..Len(demand_map[d].offer_list) :
        demand_map[d].offer_list[k] \in DOMAIN offer_map

\* the queue take_offer_from_queue answer i found for its demand, <<>> when
\* it found no demand
QueueFound(i) ==
    LET demand == get_demand(resps[i].before.demand_map, BodyOf(i).demand_id) IN
    IF demand.kind = "Ok" /\ demand.value /= None
    THEN resps[i].before.demand_map[Unwrap(demand.value)].offer_list
    ELSE <<>>

\* C38: every queued offer id is a key of offer_map, and
\* take_offer_from_queue answers Ok with the offer whenever the queue of its
\* demand is not empty.
C38_QueuedOffersPresent ==
    op = "yagna_offer_server" =>
        /\ QueuedArePresent(locals.offer_map, locals.demand_map)
        /\ \A i \in 1..Len(resps) :
              (HandlerOf(i) = "take_offer_from_queue" /\ QueueFound(i) /= <<>>)
                  => resps[i].response.status = "Ok"

\* C39: no two demands of demand_map are of one node; a decoded demand_new
\* whose id is registered answers Conflict and leaves the maps alone, and any
\* other one leaves the demands of the other nodes as they were, drops those
\* of its node and registers its demand with an empty queue.
C39_OneDemandPerNode ==
    op = "yagna_offer_server" =>
        /\ \A d, e \in DOMAIN locals.demand_map :
              locals.demand_map[d].demand.node_id = locals.demand_map[e].demand.node_id => d = e
        /\ \A i \in 1..Len(resps) :
              (HandlerOf(i) = "demand_new" /\ Decoded(i))
                  => LET demand_map == resps[i].before.demand_map
                         others == { k \in DOMAIN demand_map :
                                        demand_map[k].demand.node_id /= BodyOf(i).node_id } IN
                     IF BodyOf(i).id \in DOMAIN demand_map
                     THEN /\ resps[i].response.status = "Conflict"
                          /\ resps[i].after = resps[i].before
                     ELSE /\ resps[i].response = HttpResponse("Ok", json(BodyOf(i)))
                          /\ DOMAIN resps[i].after.demand_map = others \cup {BodyOf(i).id}
                          /\ \A k \in others : resps[i].after.demand_map[k] = demand_map[k]
                          /\ resps[i].after.demand_map[BodyOf(i).id] = DemandObj(BodyOf(i), <<>>)

\* demand d3 of node n1 replaced demand d1 of that node, and a second
\* demand_new with the id d3 was answered Conflict
C39_Witness ==
    /\ op = "yagna_offer_server"
    /\ Len(resps) = 2
    /\ "d1" \in DOMAIN args.demand_map
    /\ HandlerOf(1) = "demand_new"
    /\ resps[1].response = HttpResponse("Ok", json(Demand("d3", "n1")))
    /\ HandlerOf(2) = "demand_new"
    /\ resps[2].response.status = "Conflict"
    /\ DOMAIN locals.demand_map = {"d2", "d3"}

\* request r has been answered; handler r can take its next step
Answered(r) == \E i \in 1..Len(resps) : resps[i].request = r
CanStep(r) ==
    /\ ~Answered(r)
    /\ IF returns_early(calls[r]) THEN TRUE
       ELSE IF HoldsAll(r) THEN TRUE
       ELSE locals.mutex[Awaited(r)] = None

\* no handler holds the offers mutex while it still awaits the demands mutex
DemandsBeforeOffers ==
    \A r \in 1..Len(calls) :
        locals.mutex.lock = Some(r) =>
            \A k \in 1..Len(locks(calls[r].handler)) :
                locks(calls[r].handler)[k] = "demands" => locals.mutex.demands = Some(r)

\* while a request is unanswered, some handler can take a step
NoDeadlock == (\E r \in 1..Len(calls) : ~Answered(r)) => \E r \in 1..Len(calls) : CanStep(r)

\* C40: a handler that holds the offers mutex and takes the demands mutex
\* at all holds that one already; whenever a request is unanswered some
\* handler can take a step; and every request that arrived is eventually
\* answered.
C40_NoDeadlock ==
    /\ [](DemandsBeforeOffers /\ NoDeadlock)
    /\ \A r \in 1..MaxOfferRequests : [](Len(calls) >= r => <>Answered(r))

\* add_offer_to_demand holds the demands mutex and awaits the offers mutex,
\* which clean_old_offers holds
C40_Witness ==
    /\ op = "yagna_offer_server"
    /\ \E r, c \in 1..Len(calls) :
          /\ calls[r].handler = "add_offer_to_demand"
          /\ locals.mutex.demands = Some(r)
          /\ calls[c].handler = "clean_old_offers"
          /\ locals.mutex.lock = Some(c)

====
